---------------------------- MODULE Spec2Model ----------------------------
(***************************************************************************)
(* Verification model of the pyzy grade tools.                             *)
(*                                                                         *)
(* Python strings are modelled as sequences of one-character strings, so   *)
(* that lower(), strip(), replace(), split(), "in" and the regular         *)
(* expressions of the source are computed character by character.          *)
(* Cell values of a DataFrame are tagged records (nan, none, int, float,   *)
(* str), so that pd.isna, truthiness and str() behave as in the source.    *)
(***************************************************************************)
EXTENDS Integers, Sequences, FiniteSets, TLC

(***************************************************************************)
(* Bounds of the model.                                                    *)
(***************************************************************************)
MaxLectures == 2
MaxMasterRows == 2
MaxAssignments == 2

(***************************************************************************)
(* Python str primitives.                                                  *)
(***************************************************************************)
UpperChars == <<"A","B","C","D","E","F","G","H","I","J","K","L","M","N","O","P","Q","R","S","T","U","V","W","X","Y","Z">>
LowerChars == <<"a","b","c","d","e","f","g","h","i","j","k","l","m","n","o","p","q","r","s","t","u","v","w","x","y","z">>
DigitChars == <<"0","1","2","3","4","5","6","7","8","9">>

UpperSet == {UpperChars[i] : i \in 1..26}
DigitSet == {DigitChars[i] : i \in 1..10}
SpaceSet == {" ", "\t"}

LowerMap == [c \in UpperSet |-> LowerChars[CHOOSE i \in 1..26 : UpperChars[i] = c]]
UpperMap == [c \in {LowerChars[i] : i \in 1..26} |-> UpperChars[CHOOSE i \in 1..26 : LowerChars[i] = c]]
DigitVal == [c \in DigitSet |-> (CHOOSE i \in 1..10 : DigitChars[i] = c) - 1]

LowerCh(c) == IF c \in UpperSet THEN LowerMap[c] ELSE c
UpperCh(c) == IF c \in DOMAIN UpperMap THEN UpperMap[c] ELSE c

\* str.lower()
Lower(s) == [i \in 1..Len(s) |-> LowerCh(s[i])]
\* str.upper()
Upper(s) == [i \in 1..Len(s) |-> UpperCh(s[i])]
\* str.replace(a, b) for one-character a and b
ReplaceCh(s, a, b) == [i \in 1..Len(s) |-> IF s[i] = a THEN b ELSE s[i]]
\* str.replace(a, '') for one-character a
RemoveCh(s, a) == SelectSeq(s, LAMBDA c : c # a)

MinOf(S) == CHOOSE x \in S : \A y \in S : x <= y
MaxOf(S) == CHOOSE x \in S : \A y \in S : x >= y

\* str.strip(chars), str.rstrip(chars)
StripSet(s, cs) ==
    LET keep == {i \in 1..Len(s) : s[i] \notin cs}
    IN IF keep = {} THEN <<>> ELSE SubSeq(s, MinOf(keep), MaxOf(keep))
RStripSet(s, cs) ==
    LET keep == {i \in 1..Len(s) : s[i] \notin cs}
    IN IF keep = {} THEN <<>> ELSE SubSeq(s, 1, MaxOf(keep))
Strip(s) == StripSet(s, SpaceSet)
RStrip(s) == RStripSet(s, SpaceSet)

\* sub in s
Contains(sub, s) ==
    \E i \in 0..(Len(s) - Len(sub)) : SubSeq(s, i + 1, i + Len(sub)) = sub
\* ch in s, for one character
HasCh(s, ch) == \E i \in 1..Len(s) : s[i] = ch
\* s.split(ch)[0]
SplitFirst(s, ch) ==
    IF HasCh(s, ch)
    THEN SubSeq(s, 1, MinOf({i \in 1..Len(s) : s[i] = ch}) - 1)
    ELSE s

\* number of leading characters of s, from position p, that lie in cs
RECURSIVE RunLen(_, _, _)
RunLen(s, p, cs) ==
    IF p <= Len(s) /\ s[p] \in cs THEN 1 + RunLen(s, p + 1, cs) ELSE 0

\* str(n) and int(s) for naturals
RECURSIVE IntToStr(_)
IntToStr(n) ==
    IF n < 10 THEN <<DigitChars[n + 1]>>
    ELSE IntToStr(n \div 10) \o <<DigitChars[(n % 10) + 1]>>
RECURSIVE StrToInt(_)
StrToInt(s) ==
    IF s = <<>> THEN 0
    ELSE 10 * StrToInt(SubSeq(s, 1, Len(s) - 1)) + DigitVal[s[Len(s)]]

(***************************************************************************)
(* Cell values.                                                            *)
(***************************************************************************)
NaN == [t |-> "nan"]
None == [t |-> "none"]
PyInt(n) == [t |-> "int", v |-> n]
\* the float w.f with one decimal digit f
PyFloat(w, f) == [t |-> "float", w |-> w, f |-> f]
PyStr(s) == [t |-> "str", s |-> s]

\* pd.isna / pd.notna
IsNa(x) == x.t \in {"nan", "none"}
\* bool(x): nan is truthy, None, 0, 0.0 and '' are falsy
Truthy(x) ==
    CASE x.t = "nan" -> TRUE
      [] x.t = "none" -> FALSE
      [] x.t = "int" -> x.v # 0
      [] x.t = "float" -> x.w # 0 \/ x.f # 0
      [] x.t = "str" -> x.s # <<>>
\* str(x)
Str(x) ==
    CASE x.t = "nan" -> <<"n","a","n">>
      [] x.t = "none" -> <<"N","o","n","e">>
      [] x.t = "int" -> IntToStr(x.v)
      [] x.t = "float" -> IntToStr(x.w) \o <<".">> \o IntToStr(x.f)
      [] x.t = "str" -> x.s

(***************************************************************************)
(* Identity Resolver.                                                      *)
(***************************************************************************)
\* float(id_str) succeeds: the decimal grammar digits* '.' digits* with at
\* least one digit (exponent, sign and underscore forms are not generated
\* by any input of the model)
IsDecimal(s) ==
    /\ Cardinality({i \in 1..Len(s) : s[i] = "."}) = 1
    /\ \A i \in 1..Len(s) : s[i] \in DigitSet \cup {"."}
    /\ Len(s) >= 2
\* id_float == int(id_float)
IsWhole(s) ==
    LET dot == MinOf({i \in 1..Len(s) : s[i] = "."})
    IN \A i \in (dot + 1)..Len(s) : s[i] = "0"
\* str(int(id_float))
WholePart(s) ==
    LET dot == MinOf({i \in 1..Len(s) : s[i] = "."})
    IN IntToStr(StrToInt(SubSeq(s, 1, dot - 1)))

normalize_student_id_keepDecimal(student_id) ==
    IF IsNa(student_id) THEN None ELSE PyStr(Strip(Str(student_id)))
normalize_student_id(student_id) ==
    IF IsNa(student_id) THEN None
    ELSE LET id_str == Strip(Str(student_id))
         IN IF HasCh(id_str, ".") /\ IsDecimal(id_str) /\ IsWhole(id_str)
            THEN PyStr(WholePart(id_str))
            ELSE PyStr(id_str)

extract_username_from_email(email) ==
    IF IsNa(email) \/ ~Truthy(email) \/ ~HasCh(Str(email), "@")
    THEN PyStr(<<>>)
    ELSE PyStr(Lower(Strip(SplitFirst(Str(email), "@"))))

\* the first column among the positions that satisfy a test, or None
FirstCol(cols, hits) ==
    IF hits = {} THEN None ELSE PyStr(cols[MinOf(hits)])

IdPatterns ==
    << <<"s","t","u","d","e","n","t"," ","i","d">>,
       <<"s","t","u","d","e","n","t","i","d">>,
       <<"s","t","u","d","e","n","t","_","i","d">>,
       <<"s","i","d">>,
       <<"i","d">>,
       <<"s","t","u","d","e","n","t"," ","n","u","m","b","e","r">>,
       <<"s","t","u","d","e","n","t","_","n","u","m","b","e","r">> >>
EmailPatterns ==
    << <<"s","c","h","o","o","l"," ","e","m","a","i","l">>,
       <<"s","c","h","o","o","l","e","m","a","i","l">>,
       <<"s","c","h","o","o","l","_","e","m","a","i","l">> >>
UsernamePatterns ==
    << <<"u","s","e","r","n","a","m","e">>,
       <<"u","s","e","r"," ","n","a","m","e">>,
       <<"u","s","e","r","_","n","a","m","e">> >>

Clean2(s) == RemoveCh(RemoveCh(s, " "), "_")
Clean3(s) == RemoveCh(Clean2(s), "-")

IsIdHeader(col) ==
    LET col_lower == Clean2(Lower(col))
    IN \E k \in 1..Len(IdPatterns) :
          \/ Contains(Clean2(IdPatterns[k]), col_lower)
          \/ Contains(col_lower, Clean2(IdPatterns[k]))
IsEmailHeader(col) ==
    \E k \in 1..Len(EmailPatterns) : Clean3(EmailPatterns[k]) = Clean3(Lower(col))
IsUsernameHeader(col) ==
    \E k \in 1..Len(UsernamePatterns) : Clean3(UsernamePatterns[k]) = Clean3(Lower(col))

find_student_id_column(df) ==
    FirstCol(df.cols, {i \in 1..Len(df.cols) : IsIdHeader(df.cols[i])})
find_email_column(df) ==
    FirstCol(df.cols, {i \in 1..Len(df.cols) : IsEmailHeader(df.cols[i])})
find_username_column(df) ==
    FirstCol(df.cols, {i \in 1..Len(df.cols) : IsUsernameHeader(df.cols[i])})

(***************************************************************************)
(* Column Classifier.                                                      *)
(***************************************************************************)
clean_assignment_name(col_name) == RStrip(SplitFirst(col_name, "["))

TypePhrases ==
    << <<"P","a","r","t","i","c","i","p","a","t","i","o","n"," ","A","c","t","i","v","i","t","i","e","s">>,
       <<"I","n","-","L","a","b"," ","L","a","b","s">>,
       <<"C","h","a","l","l","e","n","g","e"," ","A","c","t","i","v","i","t","i","e","s">>,
       <<"O","u","t","-","o","f","-","L","a","b"," ","L","a","b","s">> >>
TypeAbbrevs == << <<"P","A">>, <<"I","L">>, <<"C","A">>, <<"O","L">> >>

\* s matches \s*\([\d.]+\) entirely
IsPointsSuffix(s) ==
    LET sp == RunLen(s, 1, SpaceSet)
        body == RunLen(s, sp + 2, DigitSet \cup {"."})
    IN /\ Len(s) >= sp + 3
       /\ s[sp + 1] = "("
       /\ body >= 1
       /\ sp + 1 + body + 1 = Len(s)
       /\ s[Len(s)] = ")"

\* re.match(r'Week\s+(\d+)\s+(.+?)(?:\s*\([\d.]+\))?$', s): the positions of
\* the groups, or ok = FALSE.  The lazy group 2 takes the fewest characters
\* after which the rest is empty or a points suffix.
WeekMatch(s) ==
    LET sp1 == RunLen(s, 5, SpaceSet)
        dg == RunLen(s, 5 + sp1, DigitSet)
        sp2 == RunLen(s, 5 + sp1 + dg, SpaceSet)
        start == 5 + sp1 + dg + sp2
        ends == {e \in start..Len(s) :
                    e = Len(s) \/ IsPointsSuffix(SubSeq(s, e + 1, Len(s)))}
    IN IF /\ Len(s) >= 4
          /\ SubSeq(s, 1, 4) = <<"W","e","e","k">>
          /\ sp1 >= 1 /\ dg >= 1 /\ sp2 >= 1
          /\ ends # {}
       THEN [ok |-> TRUE,
             week |-> SubSeq(s, 5 + sp1, 4 + sp1 + dg),
             type |-> SubSeq(s, start, MinOf(ends))]
       ELSE [ok |-> FALSE]

translate_assignment_name_untranslated(col_name) == col_name
translate_assignment_name(col_name) ==
    LET m == WeekMatch(Strip(col_name))
    IN IF ~m.ok THEN col_name
       ELSE LET assignment_type == Strip(m.type)
                hits == {k \in 1..Len(TypePhrases) :
                            Lower(TypePhrases[k]) = Lower(assignment_type)}
            IN IF hits = {} THEN col_name
               ELSE <<"W">> \o m.week \o <<" ">> \o TypeAbbrevs[MinOf(hits)]

KindSet == { <<"p","a">>, <<"c","a">>, <<"i","l">>, <<"o","l">> }

\* re.match(r'Week\s+\d+\s+', s, re.IGNORECASE)
IsWeekForm(s) ==
    LET sp1 == RunLen(s, 5, SpaceSet)
        dg == RunLen(s, 5 + sp1, DigitSet)
        sp2 == RunLen(s, 5 + sp1 + dg, SpaceSet)
    IN /\ Len(s) >= 4
       /\ Lower(SubSeq(s, 1, 4)) = <<"w","e","e","k">>
       /\ sp1 >= 1 /\ dg >= 1 /\ sp2 >= 1

\* re.match(r'W(\d+)\s+(PA|CA|IL|OL)', s, re.IGNORECASE): groups or ok = FALSE
AbbrevMatch(s) ==
    LET dg == RunLen(s, 2, DigitSet)
        sp == RunLen(s, 2 + dg, SpaceSet)
        p == 2 + dg + sp
    IN IF /\ Len(s) >= 1
          /\ LowerCh(s[1]) = "w"
          /\ dg >= 1 /\ sp >= 1
          /\ Len(s) >= p + 1
          /\ Lower(SubSeq(s, p, p + 1)) \in KindSet
       THEN [ok |-> TRUE,
             week |-> SubSeq(s, 2, 1 + dg),
             kind |-> SubSeq(s, p, p + 1)]
       ELSE [ok |-> FALSE]

is_gradeable_assignment(col_name) ==
    \/ IsWeekForm(Strip(col_name))
    \/ AbbrevMatch(Strip(col_name)).ok

(***************************************************************************)
(* Assignment file names (pyzy.common).                                    *)
(***************************************************************************)
SepSet == SpaceSet \cup {"_"}
TypeWords ==
    << <<"p","a","r","t","i","c","i","p","a","t","i","o","n">>,
       <<"c","h","a","l","l","e","n","g","e">>,
       <<"i","n","-","l","a","b">>,
       <<"o","u","t","-","o","f","-","l","a","b">> >>
KindWords ==
    << <<"a","c","t","i","v","i","t","i","e","s">>, <<"l","a","b","s">> >>

\* Path(filename).stem for a name without directories
Stem(filename) ==
    LET dots == {i \in 2..Len(filename) : filename[i] = "."}
    IN IF dots = {} THEN filename ELSE SubSeq(filename, 1, MaxOf(dots) - 1)

\* the word of ws that s carries at position p, ignoring case, or 0
WordAt(s, p, ws) ==
    LET hits == {k \in 1..Len(ws) :
                    /\ p + Len(ws[k]) - 1 <= Len(s)
                    /\ Lower(SubSeq(s, p, p + Len(ws[k]) - 1)) = ws[k]}
    IN IF hits = {} THEN 0 ELSE MinOf(hits)

\* the match of Week[_\s]+(\d+)[_\s]+(type)[_\s]+(kind) that starts at p
LongFormAt(s, p) ==
    LET s1 == RunLen(s, p + 4, SepSet)
        dg == RunLen(s, p + 4 + s1, DigitSet)
        s2 == RunLen(s, p + 4 + s1 + dg, SepSet)
        tp == p + 4 + s1 + dg + s2
        t == WordAt(s, tp, TypeWords)
        tl == IF t = 0 THEN 0 ELSE Len(TypeWords[t])
        s3 == RunLen(s, tp + tl, SepSet)
        kp == tp + tl + s3
        k == WordAt(s, kp, KindWords)
    IN IF /\ p + 3 <= Len(s)
          /\ Lower(SubSeq(s, p, p + 3)) = <<"w","e","e","k">>
          /\ s1 >= 1 /\ dg >= 1 /\ s2 >= 1 /\ t # 0 /\ s3 >= 1 /\ k # 0
       THEN [ok |-> TRUE,
             week_num |-> SubSeq(s, p + 4 + s1, p + 3 + s1 + dg),
             assignment_type |-> SubSeq(s, tp, tp + tl - 1),
             assignment_kind |-> SubSeq(s, kp, kp + Len(KindWords[k]) - 1)]
       ELSE [ok |-> FALSE]

\* the match of (W\d+)[_\s]+(PA|CA|IL|OL) that starts at p
ShortFormAt(s, p) ==
    LET dg == RunLen(s, p + 1, DigitSet)
        sp == RunLen(s, p + 1 + dg, SepSet)
        q == p + 1 + dg + sp
    IN IF /\ p <= Len(s)
          /\ LowerCh(s[p]) = "w"
          /\ dg >= 1 /\ sp >= 1
          /\ q + 1 <= Len(s)
          /\ Lower(SubSeq(s, q, q + 1)) \in KindSet
       THEN [ok |-> TRUE, week |-> SubSeq(s, p, p + dg), kind |-> SubSeq(s, q, q + 1)]
       ELSE [ok |-> FALSE]

\* type_map.get(f"{assignment_type} {assignment_kind}"): the key is compared
\* with the text as captured, case included
TypeMapGet(assignment_combo) ==
    LET hits == {k \in 1..Len(TypePhrases) : TypePhrases[k] = assignment_combo}
    IN IF hits = {} THEN None ELSE PyStr(TypeAbbrevs[MinOf(hits)])

\* the abbreviated name of the simplified form, or None
ShortFormName(stem) ==
    LET at == {p \in 1..Len(stem) : ShortFormAt(stem, p).ok}
    IN IF at = {} THEN None
       ELSE PyStr(Upper(ShortFormAt(stem, MinOf(at)).week) \o <<" ">>
                  \o Upper(ShortFormAt(stem, MinOf(at)).kind))

\* the abbreviated name of the first long-form match m, or None
LongFormName(m) ==
    IF TypeMapGet(m.assignment_type \o <<" ">> \o m.assignment_kind) = None THEN None
    ELSE PyStr(<<"W">> \o m.week_num \o <<" ">>
               \o TypeMapGet(m.assignment_type \o <<" ">> \o m.assignment_kind).s)

\* parse_assignment_filename(filename)[1]: abbrev_name, or None
parse_assignment_filename(filename) ==
    LET at == {p \in 1..Len(Stem(filename)) : LongFormAt(Stem(filename), p).ok}
    IN IF at # {} /\ LongFormName(LongFormAt(Stem(filename), MinOf(at))) # None
       THEN LongFormName(LongFormAt(Stem(filename), MinOf(at)))
       ELSE ShortFormName(Stem(filename))

(***************************************************************************)
(* Table Matcher.                                                          *)
(***************************************************************************)
normalize_column_name(name) ==
    Strip(ReplaceCh(ReplaceCh(Lower(name), "_", " "), "-", " "))

find_matching_column_singlePass(lab_col, lecture_cols) ==
    LET normalized_lab == normalize_column_name(clean_assignment_name(lab_col))
        hits == {i \in 1..Len(lecture_cols) :
                   LET normalized_lec == normalize_column_name(clean_assignment_name(lecture_cols[i]))
                   IN \/ normalized_lec = normalized_lab
                      \/ Contains(normalized_lab, normalized_lec)
                      \/ Contains(normalized_lec, normalized_lab)}
    IN IF hits # {} THEN PyStr(lecture_cols[MinOf(hits)]) ELSE None
find_matching_column(lab_col, lecture_cols) ==
    LET normalized_lab == normalize_column_name(clean_assignment_name(lab_col))
        norm(c) == normalize_column_name(clean_assignment_name(c))
        exact == {i \in 1..Len(lecture_cols) : norm(lecture_cols[i]) = normalized_lab}
        fuzzy == {i \in 1..Len(lecture_cols) :
                     \/ Contains(normalized_lab, norm(lecture_cols[i]))
                     \/ Contains(norm(lecture_cols[i]), normalized_lab)}
    IN IF exact # {} THEN PyStr(lecture_cols[MinOf(exact)])
       ELSE IF fuzzy # {} THEN PyStr(lecture_cols[MinOf(fuzzy)])
       ELSE None

(***************************************************************************)
(* DataFrames: cols is the ordered list of headers, rows the list of rows, *)
(* each row a function from header to cell value.  Row labels are the      *)
(* positions 1..n (pandas' default RangeIndex 0..n-1).                     *)
(***************************************************************************)
ColSet(df) == {df.cols[i] : i \in 1..Len(df.cols)}
\* df[col] = ''
AddColumn(df, col) ==
    [cols |-> Append(df.cols, col),
     rows |-> [i \in 1..Len(df.rows) |->
                 [c \in ColSet(df) \cup {col} |->
                     IF c = col THEN PyStr(<<>>) ELSE df.rows[i][c]]]]
\* a write that only fills an empty cell
SetCell_keepFilled(df, idx, col, value) ==
    IF IsNa(df.rows[idx][col]) \/ df.rows[idx][col] = PyStr(<<>>)
    THEN [df EXCEPT !.rows[idx][col] = value]
    ELSE df

\* df.at[idx, col] = value
SetCell(df, idx, col, value) ==
    [df EXCEPT !.rows[idx][col] = value]

(***************************************************************************)
(* Column Ordering.                                                        *)
(***************************************************************************)
assignment_type_order(kind) ==
    CASE kind = <<"P","A">> -> 0
      [] kind = <<"C","A">> -> 1
      [] kind = <<"I","L">> -> 2
      [] kind = <<"O","L">> -> 3
      [] OTHER -> 99
\* the sort key (week_num, type_order) of an assignment column
SortKey(col) ==
    LET m == AbbrevMatch(Strip(col))
    IN <<StrToInt(m.week), assignment_type_order(Upper(m.kind))>>
KeyLeq_strict(a, b) == a[1] < b[1] \/ (a[1] = b[1] /\ a[2] < b[2])
KeyLeq(a, b) == a[1] < b[1] \/ (a[1] = b[1] /\ a[2] <= b[2])
\* list.sort(key=...) is stable: an element goes after every element whose
\* key is not greater
RECURSIVE StableSort(_)
StableSort(cols) ==
    IF cols = <<>> THEN <<>>
    ELSE LET head == StableSort(SubSeq(cols, 1, Len(cols) - 1))
             x == cols[Len(cols)]
             before == {i \in 1..Len(head) : KeyLeq(SortKey(head[i]), SortKey(x))}
             n == IF before = {} THEN 0 ELSE MaxOf(before)
         IN SubSeq(head, 1, n) \o <<x>> \o SubSeq(head, n + 1, Len(head))

\* the ordering that keeps only the assignment columns
sort_assignment_columns_assignmentsOnly(df) ==
    [df EXCEPT !.cols = StableSort(SelectSeq(df.cols, LAMBDA c : AbbrevMatch(Strip(c)).ok))]

sort_assignment_columns(df) ==
    LET assignment_cols == SelectSeq(df.cols, LAMBDA c : AbbrevMatch(Strip(c)).ok)
        non_assignment_cols == SelectSeq(df.cols, LAMBDA c : ~AbbrevMatch(Strip(c)).ok)
    IN [df EXCEPT !.cols = non_assignment_cols \o StableSort(assignment_cols)]

(***************************************************************************)
(* Inputs of a merge run.  Headers and cell values are the ones the        *)
(* gradebook exports use; every table below is a CSV the loader accepts.   *)
(***************************************************************************)
hStudentID == <<"S","t","u","d","e","n","t"," ","I","D">>
hUsername == <<"U","s","e","r","n","a","m","e">>
hSchoolEmail == <<"S","c","h","o","o","l"," ","e","m","a","i","l">>
hLastName == <<"L","a","s","t"," ","N","a","m","e">>
hTotal == <<"T","o","t","a","l">>
hW1PAMeta == <<"W","1"," ","P","A"," ","[","P","t","s","]">>
hW1PA == <<"W","1"," ","P","A">>
hWeek1PA == <<"W","e","e","k"," ","1"," ","P","a","r","t","i","c","i","p","a","t","i","o","n"," ","A","c","t","i","v","i","t","i","e","s"," ","(","1","0",")">>
hWeek1Total == <<"W","e","e","k"," ","1"," ","T","o","t","a","l">>

sAlice == PyStr(<<"a","l","i","c","e">>)
sBob == PyStr(<<"b","o","b">>)
sAliceMail == PyStr(<<"a","l","i","c","e","@","x",".","e","d","u">>)
sBobMail == PyStr(<<"B","o","b","@","x",".","e","d","u">>)
sCarolMail == PyStr(<<"c","a","r","o","l","@","x",".","e","d","u">>)
sSmith == PyStr(<<"S","m","i","t","h">>)
sJones == PyStr(<<"J","o","n","e","s">>)
sEmpty == PyStr(<<>>)

\* a table from its header list and the list of its rows' cell lists
MkTable(cols, vals) ==
    [cols |-> cols,
     rows |-> [i \in 1..Len(vals) |->
                 [c \in {cols[k] : k \in 1..Len(cols)} |->
                     vals[i][CHOOSE k \in 1..Len(cols) : cols[k] = c]]]]

\* ids and usernames, no assignment column yet, a totals column
LecFull ==
    MkTable(<<hStudentID, hUsername, hTotal>>,
            << <<PyInt(111), sAlice, PyInt(50)>>,
               <<PyFloat(222, 0), sBob, PyInt(60)>> >>)
\* an existing assignment column carrying export metadata; one empty id cell
LecMeta ==
    MkTable(<<hStudentID, hUsername, hW1PAMeta>>,
            << <<PyInt(111), sAlice, PyInt(70)>>,
               <<NaN, sBob, sEmpty>> >>)
\* no id column
LecNoId ==
    MkTable(<<hUsername, hLastName>>,
            << <<sAlice, sSmith>> >>)
\* neither an id nor a username column
LecNoIdentity ==
    MkTable(<<hLastName, hTotal>>,
            << <<sSmith, PyInt(50)>> >>)
LectureTables == {LecFull, LecMeta, LecNoId, LecNoIdentity}

MasterCols == <<hStudentID, hSchoolEmail, hLastName, hWeek1PA, hWeek1Total>>
MasterRowValues ==
    << <<PyInt(111), sBobMail, sSmith, PyInt(85), PyInt(40)>>,
      <<PyInt(999), sAliceMail, sJones, PyInt(90), NaN>>,
      <<PyInt(999), sCarolMail, NaN, sEmpty, NaN>>,
      <<PyStr(<<"2","2","2",".","0">>), sBobMail, sSmith, NaN, NaN>>,
      <<NaN, sBobMail, sJones, sEmpty, PyInt(40)>>,
      <<NaN, NaN, NaN, PyInt(85), NaN>> >>
\* a master gradebook in which no id or school-email column is detected
MasterNoIdentity ==
    MkTable(<<hLastName, hWeek1Total>>, << <<sSmith, PyInt(40)>> >>)

SeqsUpTo(S, n) == UNION {[1..k -> S] : k \in 1..n}
\* the selections of k of the first n positions, in increasing order
IncreasingSeqs(n, k) ==
    {f \in [1..k -> 1..n] : \A i \in 1..(k - 1) : f[i] < f[i + 1]}
\* a master gradebook holds up to MaxMasterRows different rows of
\* MasterRowValues, in the order of that list
MasterTables ==
    UNION {{MkTable(MasterCols, [i \in 1..k |-> MasterRowValues[f[i]]]) :
                f \in IncreasingSeqs(Len(MasterRowValues), k)} :
              k \in 1..MaxMasterRows}
        \cup {MasterNoIdentity}
LectureNames == [i \in 1..MaxLectures |-> <<"section", i>>]
\* the lecture files are up to MaxLectures different tables, in any order
LectureFileLists ==
    {[i \in 1..Len(ts) |-> [name |-> LectureNames[i], df |-> ts[i]]] :
        ts \in {t \in SeqsUpTo(LectureTables, MaxLectures) :
                   \A i, j \in DOMAIN t : i # j => t[i] # t[j]}}

\* the sequences of at most n distinct members of the set S
DistinctSeqs(S, n) ==
    UNION { {s \in [1..k -> S] : \A i, j \in 1..k : s[i] = s[j] => i = j} : k \in 0..n }
\* the orders the members of the sequence s can be put in
Orders(s) ==
    {t \in [1..Len(s) -> {s[i] : i \in 1..Len(s)}] :
        \A i, j \in 1..Len(s) : t[i] = t[j] => i = j}

\* two sections and a master export of three students: one enrolled in the
\* first section under the same id, one in the second under another id but
\* the same username, one in neither
sDave == PyStr(<<"d","a","v","e">>)
SectionA ==
    MkTable(<<hStudentID, hUsername>>,
            << <<PyInt(111), sAlice>>, <<PyInt(444), sDave>> >>)
SectionB ==
    MkTable(<<hStudentID, hUsername>>, << <<PyInt(222), sBob>> >>)
EndToEndCols == <<hStudentID, hSchoolEmail, hWeek1PA>>
EndToEndScores == {PyInt(85), PyFloat(9, 5)}
EndToEndMasters ==
    UNION { { MkTable(EndToEndCols, vals) :
                vals \in Orders(<< <<PyInt(111), sAliceMail, a>>,
                                   <<PyInt(999), sBobMail, b>>,
                                   <<PyInt(555), sCarolMail, PyInt(70)>> >>) } :
            a \in EndToEndScores, b \in EndToEndScores }
EndToEndLectureLists ==
    {[i \in 1..2 |-> [name |-> LectureNames[i], df |-> ts[i]]] :
        ts \in Orders(<<SectionA, SectionB>>)}

\* per-assignment exports: the file name carries the assignment
hPercentScore == <<"P","e","r","c","e","n","t"," ","s","c","o","r","e">>
fWeek1PAReport == <<"W","e","e","k","_","1","_","P","a","r","t","i","c","i","p","a","t","i","o","n","_","A","c","t","i","v","i","t","i","e","s","_","r","e","p","o","r","t",".","c","s","v">>
fW1PAMerged == <<"W","1"," ","P","A","_","m","e","r","g","e","d",".","c","s","v">>
fWeek2ChallengeLabs == <<"W","e","e","k","_","2","_","C","h","a","l","l","e","n","g","e","_","L","a","b","s",".","c","s","v">>
AssignmentCols == <<hStudentID, hSchoolEmail, hPercentScore>>
\* two rows that resolve to the same lecture row, the second by username
\* with an id no lecture row carries
AsgLong ==
    [name |-> fWeek1PAReport,
     df |-> MkTable(AssignmentCols,
                    << <<PyInt(111), sBobMail, PyInt(85)>>,
                       <<PyInt(999), sAliceMail, PyInt(90)>> >>)]
\* the same assignment from a second file; one empty score
AsgShort ==
    [name |-> fW1PAMerged,
     df |-> MkTable(AssignmentCols,
                    << <<PyStr(<<"2","2","2",".","0">>), sBobMail, sEmpty>>,
                       <<NaN, sAliceMail, PyInt(70)>>,
                       <<PyInt(333), sCarolMail, PyInt(55)>> >>)]
\* a file name that names no assignment
AsgUnnamed ==
    [name |-> fWeek2ChallengeLabs,
     df |-> MkTable(AssignmentCols, << <<PyInt(111), sAliceMail, PyInt(10)>> >>)]
AssignmentFiles == {AsgLong, AsgShort, AsgUnnamed}
\* the assignment files are up to MaxAssignments different files, in any order
AssignmentFileLists ==
    {fs \in SeqsUpTo(AssignmentFiles, MaxAssignments) :
        \A i, j \in DOMAIN fs : i # j => fs[i] # fs[j]}

(***************************************************************************)
(* merge_grades_from_master: the state of one run.                         *)
(***************************************************************************)
VARIABLES
    pc,                      \* position of the run
    lecture_files,           \* argument: list of [name, df] as found on disk
    master_file,             \* argument: the master table as found on disk
    master_df, master_id_col, master_email_col,
    lecture_data,            \* loaded lecture tables, mutated in place
    li,                      \* position of the lecture loop
    mi,                      \* position of the master-row loop
    lecture_id_col, lecture_username_col,
    student_id_map, student_username_map,
    grades_updated, columns_added, matched_by_id, matched_by_email,
    all_master_students, matched_master_indices, failed_id_match_details,
    results,
    matchLog,                \* history: one entry per (lecture, master row) match
    writeLog                 \* history: one entry per cell write, in order

\* merge_grades_from_assignments (pyzy.merge): the state of one run
VARIABLES
    pcA,                     \* position of the run
    assignment_files,        \* argument: list of [name, df] as found on disk
    lecture_dfs,             \* loaded lecture tables, mutated in place
    ai, lj, ri,              \* positions of the assignment, lecture and row loops
    assignment_df, assign_id_col, assign_email_col, grade_col, abbrev_name,
    all_assignment_students, students_matched_this_assignment,
    lec_id_col, student_map, username_map,
    tally,                   \* grades_updated, matched_by_id, matched_by_email,
                             \* failed_id_matches of the current lecture
    merge_results,           \* results
    assignLog                \* history: one entry per cell write, in order

assignVars == <<pcA, assignment_files, lecture_dfs, ai, lj, ri, assignment_df,
                assign_id_col, assign_email_col, grade_col, abbrev_name,
                all_assignment_students, students_matched_this_assignment,
                lec_id_col, student_map, username_map, tally, merge_results,
                assignLog>>

masterVars == <<pc, master_file, master_df, master_id_col,
                master_email_col, lecture_data, li, mi, lecture_id_col,
                lecture_username_col, student_id_map, student_username_map,
                grades_updated, columns_added, matched_by_id, matched_by_email,
                all_master_students, matched_master_indices,
                failed_id_match_details, results, matchLog, writeLog>>

\* one call of late_score(row, adjustments), one rule of the list per step
VARIABLES
    pcL,                     \* position in late_score
    late_row,                \* row
    adjustments,             \* adjustments
    adj_pos,                 \* position of the for loop over adjustments
    late_ret                 \* the returned pair, None until the return

\* one call of a function of the grade tables' toolbox
VARIABLES
    call,                    \* the function called and its arguments
    ret                      \* its return value, None until the return

lateVars == <<pcL, late_row, adjustments, adj_pos, late_ret>>
callVars == <<call, ret>>
\* one run of run_score(deadline_dir, lifted_dir, output_dir, adjustments_file)
VARIABLES
    pcS,                     \* position in run_score
    deadline_dir,            \* the directory of the original-deadline exports
    lifted_dir,              \* the directory of the lifted-deadline exports
    adjustments_file,        \* the adjustments file argument
    matches,                 \* matches
    match_pos,               \* position of the loop over matches
    loaded_adjustments,      \* adjustments, as loaded from the file
    all_audit_records,
    all_true_zero_records,
    processed_assignments,
    out_files,               \* the files written under output_dir
    exit_status              \* the status of sys.exit, None while running

scoreVars == <<pcS, deadline_dir, lifted_dir, adjustments_file, matches,
               match_pos, loaded_adjustments, all_audit_records,
               all_true_zero_records, processed_assignments, out_files,
               exit_status>>

\* one run of run_activity(input_files, lecture_files, column_names) in
\* aggregate mode; the gradebooks are lecture_files
VARIABLES
    pcV,                     \* position in run_activity
    input_files,             \* the activity reports
    column_names,            \* the column names
    report_pos,              \* position of the loop over input_files
    combined,                \* combined: username -> max_score, count
    book_pos,                \* position of the loop over lecture_files
    activity_out             \* the gradebooks written under output_dir

activityVars == <<pcV, input_files, column_names, report_pos, combined,
                  book_pos, activity_out>>

\* the requests of the web front end (app_master.py) and the folder that
\* the module creates once at import
VARIABLES
    UPLOAD_FOLDER,           \* the files of the folder: name -> content
    pcW,                     \* per request: position in upload_files
    uploads,                 \* per request: the files of the form
    web_read,                \* per request: what its merge has read
    response,                \* per request: the response of upload_files
    downloaded               \* per request: the response of download_file

webVars == <<UPLOAD_FOLDER, pcW, uploads, web_read, response, downloaded>>

batchVars == <<scoreVars, activityVars, webVars>>
toolVars == <<lateVars, callVars, batchVars>>

vars == <<lecture_files, masterVars, assignVars, toolVars>>

EmptyTable == [cols |-> <<>>, rows |-> <<>>]
EmptyMap == [k \in {} |-> 0]

\* the locals of merge_grades_from_master before its first statement
MasterLocals ==
    /\ master_df = EmptyTable
    /\ master_id_col = None
    /\ master_email_col = None
    /\ lecture_data = <<>>
    /\ li = 1
    /\ mi = 1
    /\ lecture_id_col = None
    /\ lecture_username_col = None
    /\ student_id_map = EmptyMap
    /\ student_username_map = EmptyMap
    /\ grades_updated = 0
    /\ columns_added = 0
    /\ matched_by_id = 0
    /\ matched_by_email = 0
    /\ all_master_students = {}
    /\ matched_master_indices = {}
    /\ failed_id_match_details = <<>>
    /\ results = [updated_dataframes |-> EmptyMap,
                  stats |-> EmptyMap,
                  students_not_found |-> {},
                  orphaned_rows |-> <<>>,
                  failed_id_match_rows |-> <<>>,
                  new_columns |-> <<>>,
                  matched_students |-> {},
                  match_methods |-> [by_id |-> 0, by_email |-> 0]]
    /\ matchLog = <<>>
    /\ writeLog = <<>>

\* the locals of merge_grades_from_assignments before its first statement
AssignLocals ==
    /\ lecture_dfs = <<>>
    /\ ai = 1
    /\ lj = 1
    /\ ri = 1
    /\ assignment_df = EmptyTable
    /\ assign_id_col = None
    /\ assign_email_col = None
    /\ grade_col = None
    /\ abbrev_name = None
    /\ all_assignment_students = {}
    /\ students_matched_this_assignment = {}
    /\ lec_id_col = None
    /\ student_map = EmptyMap
    /\ username_map = EmptyMap
    /\ tally = [grades_updated |-> 0, matched_by_id |-> 0, matched_by_email |-> 0,
                failed_id_matches |-> <<>>]
    /\ merge_results = [updated_dataframes |-> EmptyMap,
                        stats |-> EmptyMap,
                        matched_students |-> {},
                        students_not_found |-> {},
                        new_columns |-> <<>>,
                        match_methods |-> [by_id |-> 0, by_email |-> 0],
                        orphaned_rows |-> <<>>,
                        failed_id_match_rows |-> <<>>]
    /\ assignLog = <<>>

\* no call of late_score and no call of a toolbox function is in progress
ScoreIdle ==
    /\ pcS = "idle"
    /\ deadline_dir = None
    /\ lifted_dir = None
    /\ adjustments_file = None
    /\ matches = <<>>
    /\ match_pos = 0
    /\ loaded_adjustments = None
    /\ all_audit_records = <<>>
    /\ all_true_zero_records = <<>>
    /\ processed_assignments = <<>>
    /\ out_files = <<>>
    /\ exit_status = None
ActivityIdle ==
    /\ pcV = "idle"
    /\ input_files = <<>>
    /\ column_names = <<>>
    /\ report_pos = 0
    /\ combined = EmptyMap
    /\ book_pos = 0
    /\ activity_out = <<>>
WebIdle ==
    /\ UPLOAD_FOLDER = EmptyMap
    /\ pcW = <<>>
    /\ uploads = <<>>
    /\ web_read = <<>>
    /\ response = <<>>
    /\ downloaded = <<>>
BatchIdle == ScoreIdle /\ ActivityIdle /\ WebIdle
LateCallIdle ==
    /\ pcL = "idle"
    /\ late_row = <<>>
    /\ adjustments = <<>>
    /\ adj_pos = 0
    /\ late_ret = None
    /\ call = None
    /\ ret = None
ToolsIdle == LateCallIdle /\ BatchIdle

\* a call of merge_grades_from_master(lecture_files, master_file)
Init ==
    /\ pc = "start"
    /\ \/ /\ lecture_files \in LectureFileLists
          /\ master_file \in MasterTables
       \/ /\ lecture_files \in EndToEndLectureLists
          /\ master_file \in EndToEndMasters
    /\ MasterLocals
    /\ pcA = "idle"
    /\ assignment_files = <<>>
    /\ AssignLocals
    /\ ToolsIdle

\* a call of merge_grades_from_assignments(lecture_files, assignment_files)
InitAssignments ==
    /\ pcA = "start"
    /\ lecture_files \in LectureFileLists
    /\ assignment_files \in AssignmentFileLists
    /\ AssignLocals
    /\ pc = "idle"
    /\ master_file = EmptyTable
    /\ MasterLocals
    /\ ToolsIdle

\* a or b: the first operand if it is truthy, else the second
PyOr(a, b) == IF Truthy(a) THEN a ELSE b

\* d[key] = val on a dict kept in insertion order
DictSet(d, key, val) ==
    IF \E i \in 1..Len(d) : d[i].key = key
    THEN [i \in 1..Len(d) |-> IF d[i].key = key THEN [key |-> key, val |-> val] ELSE d[i]]
    ELSE Append(d, [key |-> key, val |-> val])

\* student_id_map of a lecture table: later rows overwrite earlier ones
BuildIdMap(df, id_col) ==
    IF id_col = None THEN EmptyMap
    ELSE LET key(i) == normalize_student_id(df.rows[i][id_col.s])
             rows == {i \in 1..Len(df.rows) : Truthy(key(i))}
         IN [k \in {key(i).s : i \in rows} |-> MaxOf({i \in rows : key(i).s = k})]

\* student_username_map of a lecture table
BuildUsernameMap(df, username_col) ==
    IF username_col = None THEN EmptyMap
    ELSE LET key(i) == Lower(Strip(Str(df.rows[i][username_col.s])))
             rows == {i \in 1..Len(df.rows) : ~IsNa(df.rows[i][username_col.s])}
         IN [k \in {key(i) : i \in rows} |-> MaxOf({i \in rows : key(i) = k})]

\* the lookup with the two stages swapped
LookupStudent_usernameFirst(master_student_id, master_username, id_map, name_map) ==
    IF Truthy(master_username) /\ master_username.s \in DOMAIN name_map
    THEN [idx |-> name_map[master_username.s], method |-> "email"]
    ELSE IF Truthy(master_student_id) /\ master_student_id.s \in DOMAIN id_map
    THEN [idx |-> id_map[master_student_id.s], method |-> "id"]
    ELSE [idx |-> 0, method |-> "none"]

\* the sequential lookup: id first, username only if the id did not match
LookupStudent(master_student_id, master_username, id_map, name_map) ==
    IF Truthy(master_student_id) /\ master_student_id.s \in DOMAIN id_map
    THEN [idx |-> id_map[master_student_id.s], method |-> "id"]
    ELSE IF Truthy(master_username) /\ master_username.s \in DOMAIN name_map
    THEN [idx |-> name_map[master_username.s], method |-> "email"]
    ELSE [idx |-> 0, method |-> "none"]

\* "{last_name}, {first_name}".strip(", ") from the master row
MasterName(df, master_row) ==
    LET has(col, w) == Contains(w, Lower(col)) /\ Contains(<<"n","a","m","e">>, Lower(col))
        lasts == {i \in 1..Len(df.cols) : has(df.cols[i], <<"l","a","s","t">>)}
        firsts == {i \in 1..Len(df.cols) : has(df.cols[i], <<"f","i","r","s","t">>)}
        pick(S) == IF S = {} THEN <<>>
                   ELSE LET v == master_row[df.cols[MaxOf(S)]]
                        IN IF IsNa(v) THEN <<>> ELSE Str(v)
    IN StripSet(pick(lasts) \o <<",", " ">> \o pick(firsts), {",", " "})

\* the entry with the master id recorded in both id fields
IdMismatchRecord_sourceIdTwice(df, master_row, master_email, master_student_id, lec_df, lec_idx, id_col) ==
    [name |-> MasterName(df, master_row),
     email |-> master_email,
     apparent_id |-> master_student_id,
     matched_id |-> master_student_id]

\* the failed_id_match_details entry of a row matched by username
IdMismatchRecord(df, master_row, master_email, master_student_id, lec_df, lec_idx, id_col) ==
    LET raw == IF id_col # None THEN lec_df.rows[lec_idx][id_col.s] ELSE None
        matched_lecture_id ==
            IF Truthy(raw) THEN normalize_student_id(raw)
            ELSE PyStr(<<"N","/","A">>)
    IN [name |-> MasterName(df, master_row),
        email |-> master_email,
        apparent_id |-> master_student_id,
        matched_id |-> matched_lecture_id]

\* the test that skips no cell
IsEmptyGrade_never(grade) == FALSE

\* pd.isna(grade) or grade == ''
IsEmptyGrade(grade) == IsNa(grade) \/ grade = PyStr(<<>>)

\* identification columns are never merge sources
IsIdentificationCol(master_col) ==
    \/ PyStr(master_col) = master_id_col
    \/ PyStr(master_col) = master_email_col
    \/ Contains(<<"n","a","m","e">>, Lower(master_col))
    \/ Contains(<<"e","m","a","i","l">>, Lower(master_col))
    \/ Contains(<<"s","e","c","t","i","o","n">>, Lower(master_col))
    \/ Contains(<<"c","l","a","s","s">>, Lower(master_col))

\* lecture_df.at[lecture_row_idx, lecture_col] = grade, after creating the
\* column when find_matching_column found none; acc carries the lecture
\* table, the counters, new_columns and the history of writes
WriteGrade(acc, master_col, grade, lecture_row_idx, abbreviated_col, found) ==
    LET lecture_col == IF found = None THEN abbreviated_col ELSE found.s
        df1 == IF found = None THEN AddColumn(acc.df, lecture_col) ELSE acc.df
    IN [df |-> SetCell(df1, lecture_row_idx, lecture_col, grade),
        gu |-> acc.gu + 1,
        ca |-> IF found = None THEN acc.ca + 1 ELSE acc.ca,
        nc |-> IF found = None /\ ~\E j \in 1..Len(acc.nc) : acc.nc[j] = lecture_col
               THEN Append(acc.nc, lecture_col) ELSE acc.nc,
        wl |-> Append(acc.wl,
                 [lec |-> li, mrow |-> mi, mcol |-> master_col,
                  drow |-> lecture_row_idx, col |-> lecture_col,
                  value |-> grade, created |-> (found = None)])]

\* find or create the lecture column of a translated name, then write
ResolveAndWrite(acc, master_col, grade, lecture_row_idx, abbreviated_col) ==
    WriteGrade(acc, master_col, grade, lecture_row_idx, abbreviated_col,
               find_matching_column(abbreviated_col, acc.df.cols))

\* one iteration of the loop over the master columns
TransferCell(acc, master_col, grade, lecture_row_idx) ==
    IF \/ IsIdentificationCol(master_col)
       \/ ~is_gradeable_assignment(master_col)
       \/ IsEmptyGrade(grade)
    THEN acc
    ELSE ResolveAndWrite(acc, master_col, grade, lecture_row_idx,
                         translate_assignment_name(master_col))

\* the grade-transfer loop over the master columns k..n of one matched row
RECURSIVE TransferGrades(_, _, _, _)
TransferGrades(k, acc, master_row, lecture_row_idx) ==
    IF k > Len(master_df.cols) THEN acc
    ELSE TransferGrades(k + 1,
                        TransferCell(acc, master_df.cols[k],
                                     master_row[master_df.cols[k]], lecture_row_idx),
                        master_row, lecture_row_idx)

\* the mask without its negation
OrphanedRows_maskNotNegated(df, matched) ==
    LET RECURSIVE pickRows(_)
        pickRows(i) == IF i > Len(df.rows) THEN <<>>
                       ELSE IF i \in matched
                            THEN <<[idx |-> i, row |-> df.rows[i]]>> \o pickRows(i + 1)
                            ELSE pickRows(i + 1)
    IN [cols |-> df.cols, rows |-> pickRows(1)]

\* master_df[~master_df.index.isin(matched_master_indices)]
OrphanedRows(df, matched) ==
    LET keep == {i \in 1..Len(df.rows) : i \notin matched}
        RECURSIVE pickRows(_)
        pickRows(i) == IF i > Len(df.rows) THEN <<>>
                       ELSE IF i \in keep
                            THEN <<[idx |-> i, row |-> df.rows[i]]>> \o pickRows(i + 1)
                            ELSE pickRows(i + 1)
    IN [cols |-> df.cols, rows |-> pickRows(1)]

(***************************************************************************)
(* merge_grades_from_master: the steps of one run.                         *)
(***************************************************************************)
\* load the master gradebook; neither identity column found: ValueError
RaiseNoIdentity ==
    /\ UNCHANGED <<assignVars, toolVars>>
    /\ pc = "start"
    /\ find_student_id_column(master_file) = None
    /\ find_email_column(master_file) = None
    /\ master_df' = master_file
    /\ pc' = "raised"
    /\ UNCHANGED <<lecture_files, master_file, master_id_col, master_email_col,
                   lecture_data, li, mi, lecture_id_col, lecture_username_col,
                   student_id_map, student_username_map, grades_updated,
                   columns_added, matched_by_id, matched_by_email,
                   all_master_students, matched_master_indices,
                   failed_id_match_details, results, matchLog, writeLog>>

\* load the master gradebook and every lecture file
LoadInputs ==
    /\ UNCHANGED <<assignVars, toolVars>>
    /\ pc = "start"
    /\ \/ find_student_id_column(master_file) # None
       \/ find_email_column(master_file) # None
    /\ master_df' = master_file
    /\ master_id_col' = find_student_id_column(master_file)
    /\ master_email_col' = find_email_column(master_file)
    /\ lecture_data' = lecture_files
    /\ li' = 1
    /\ pc' = "lectures"
    /\ UNCHANGED <<lecture_files, master_file, mi, lecture_id_col,
                   lecture_username_col, student_id_map, student_username_map,
                   grades_updated, columns_added, matched_by_id,
                   matched_by_email, all_master_students,
                   matched_master_indices, failed_id_match_details, results,
                   matchLog, writeLog>>

\* a lecture table with neither an id nor a username column: continue
SkipLecture ==
    /\ UNCHANGED <<assignVars, toolVars>>
    /\ pc = "lectures"
    /\ li <= Len(lecture_data)
    /\ find_student_id_column(lecture_data[li].df) = None
    /\ find_username_column(lecture_data[li].df) = None
    /\ lecture_id_col' = None
    /\ lecture_username_col' = None
    /\ li' = li + 1
    /\ UNCHANGED <<pc, lecture_files, master_file, master_df, master_id_col,
                   master_email_col, lecture_data, mi, student_id_map,
                   student_username_map, grades_updated, columns_added,
                   matched_by_id, matched_by_email, all_master_students,
                   matched_master_indices, failed_id_match_details, results,
                   matchLog, writeLog>>

\* Init -> IndexBuilt: detect the identity columns, build both lookup maps
\* and reset the per-section counters
IndexLecture ==
    /\ UNCHANGED <<assignVars, toolVars>>
    /\ pc = "lectures"
    /\ li <= Len(lecture_data)
    /\ LET lecture_df == lecture_data[li].df
           id_col == find_student_id_column(lecture_df)
           username_col == find_username_column(lecture_df)
       IN /\ id_col # None \/ username_col # None
          /\ lecture_id_col' = id_col
          /\ lecture_username_col' = username_col
          /\ student_id_map' = BuildIdMap(lecture_df, id_col)
          /\ student_username_map' = BuildUsernameMap(lecture_df, username_col)
    /\ grades_updated' = 0
    /\ columns_added' = 0
    /\ matched_by_id' = 0
    /\ matched_by_email' = 0
    /\ mi' = 1
    /\ pc' = "rows"
    /\ UNCHANGED <<lecture_files, master_file, master_df, master_id_col,
                   master_email_col, lecture_data, li, all_master_students,
                   matched_master_indices, failed_id_match_details, results,
                   matchLog, writeLog>>

\* the identifiers of a master row
MasterStudentId(master_row) ==
    IF master_id_col # None
    THEN normalize_student_id(master_row[master_id_col.s]) ELSE None
MasterEmail(master_row) ==
    IF master_email_col # None THEN master_row[master_email_col.s] ELSE None
MasterUsername(master_row) ==
    IF master_email_col # None
    THEN extract_username_from_email(master_row[master_email_col.s]) ELSE None

\* the bookkeeping and the result of the grade transfer of a matched row
RecordMatch(identifier, hit, acc) ==
    /\ matched_master_indices' = matched_master_indices \cup {mi}
    /\ results' =
          [results EXCEPT
              !.matched_students = @ \cup {identifier},
              !.match_methods.by_id = IF hit.method = "id" THEN @ + 1 ELSE @,
              !.match_methods.by_email = IF hit.method = "id" THEN @ ELSE @ + 1,
              !.new_columns = acc.nc]
    /\ lecture_data' = [lecture_data EXCEPT ![li].df = acc.df]
    /\ grades_updated' = acc.gu
    /\ columns_added' = acc.ca
    /\ writeLog' = acc.wl
    /\ matchLog' = Append(matchLog,
                      [lec |-> li, mrow |-> mi, drow |-> hit.idx,
                       method |-> hit.method])

\* the failed_id_match_details entry written when a row carrying an id is
\* matched by username
RecordIdMismatch(hit, master_student_id, rec) ==
    failed_id_match_details' =
        IF hit.method = "email" /\ Truthy(master_student_id)
        THEN DictSet(failed_id_match_details, mi, rec)
        ELSE failed_id_match_details

\* the body of the loop over the master rows, once the lookup is done
MatchRow(master_row, master_student_id, master_email, identifier, hit) ==
    /\ all_master_students' = all_master_students \cup {identifier}
    /\ matched_by_id' = IF hit.method = "id" THEN matched_by_id + 1 ELSE matched_by_id
    /\ matched_by_email' =
          IF hit.method = "email" THEN matched_by_email + 1 ELSE matched_by_email
    /\ RecordIdMismatch(hit, master_student_id,
                        IdMismatchRecord(master_df, master_row, master_email,
                                         master_student_id, lecture_data[li].df,
                                         hit.idx, lecture_id_col))
    /\ IF hit.method = "none"
       THEN UNCHANGED <<matched_master_indices, results, lecture_data,
                        grades_updated, columns_added, matchLog, writeLog>>
       ELSE RecordMatch(identifier, hit,
                        TransferGrades(1,
                            [df |-> lecture_data[li].df, gu |-> grades_updated,
                             ca |-> columns_added, nc |-> results.new_columns,
                             wl |-> writeLog],
                            master_row, hit.idx))

IdentifyRow(master_row, master_student_id, master_email, master_username) ==
    MatchRow(master_row, master_student_id, master_email,
             PyOr(PyOr(master_student_id, master_username),
                  PyStr(<<"u","n","k","n","o","w","n">>)),
             LookupStudent(master_student_id, master_username,
                           student_id_map, student_username_map))

\* RowProcessing: one master row against the current lecture table
ProcessRow ==
    /\ UNCHANGED <<assignVars, toolVars>>
    /\ pc = "rows"
    /\ mi <= Len(master_df.rows)
    /\ IdentifyRow(master_df.rows[mi], MasterStudentId(master_df.rows[mi]),
                   MasterEmail(master_df.rows[mi]), MasterUsername(master_df.rows[mi]))
    /\ mi' = mi + 1
    /\ UNCHANGED <<pc, lecture_files, master_file, master_df, master_id_col,
                   master_email_col, li, lecture_id_col, lecture_username_col,
                   student_id_map, student_username_map>>

\* Finalized: column ordering and the per-table statistics
FinishLecture ==
    /\ UNCHANGED <<assignVars, toolVars>>
    /\ pc = "rows"
    /\ mi > Len(master_df.rows)
    /\ LET lecture_name == lecture_data[li].name
           put(f, v) == [k \in DOMAIN f \cup {lecture_name} |->
                            IF k = lecture_name THEN v ELSE f[k]]
       IN results' =
            [results EXCEPT
                !.updated_dataframes =
                    put(@, sort_assignment_columns(lecture_data[li].df)),
                !.stats =
                    put(@, [grades_updated |-> grades_updated,
                            columns_added |-> columns_added,
                            matched_by_id |-> matched_by_id,
                            matched_by_email |-> matched_by_email])]
    /\ li' = li + 1
    /\ pc' = "lectures"
    /\ UNCHANGED <<lecture_files, master_file, master_df, master_id_col,
                   master_email_col, lecture_data, mi, lecture_id_col,
                   lecture_username_col, student_id_map, student_username_map,
                   grades_updated, columns_added, matched_by_id,
                   matched_by_email, all_master_students,
                   matched_master_indices, failed_id_match_details,
                   matchLog, writeLog>>

\* after the last lecture table: the cross-table reports (students_not_found
\* is a sorted list in the source; its order is not modelled)
Finalize ==
    /\ UNCHANGED <<assignVars, toolVars>>
    /\ pc = "lectures"
    /\ li > Len(lecture_data)
    /\ results' =
         [results EXCEPT
             !.students_not_found = all_master_students \ results.matched_students,
             !.orphaned_rows = OrphanedRows(master_df, matched_master_indices),
             !.failed_id_match_rows =
                 [i \in 1..Len(failed_id_match_details) |->
                     failed_id_match_details[i].val]]
    /\ pc' = "done"
    /\ UNCHANGED <<lecture_files, master_file, master_df, master_id_col,
                   master_email_col, lecture_data, li, mi, lecture_id_col,
                   lecture_username_col, student_id_map, student_username_map,
                   grades_updated, columns_added, matched_by_id,
                   matched_by_email, all_master_students,
                   matched_master_indices, failed_id_match_details,
                   matchLog, writeLog>>

Next ==
    \/ RaiseNoIdentity
    \/ LoadInputs
    \/ SkipLecture
    \/ IndexLecture
    \/ ProcessRow
    \/ FinishLecture
    \/ Finalize

Spec == Init /\ [][Next]_vars

(***************************************************************************)
(* merge_grades_from_assignments (pyzy.merge).  Its column finders,        *)
(* normalize_student_id, extract_username_from_email and                   *)
(* sort_assignment_columns are the same code as in merge_grades.py.        *)
(***************************************************************************)
\* the first column whose lower-cased header contains 'percent score'
FindGradeCol(df) ==
    FirstCol(df.cols,
             {i \in 1..Len(df.cols) :
                 Contains(<<"p","e","r","c","e","n","t"," ","s","c","o","r","e">>,
                          Lower(df.cols[i]))})

\* the username of a lecture row: the username cell, else the email's
LectureUsername(row, username_col, email_col) ==
    IF username_col # None /\ ~IsNa(row[username_col.s])
    THEN PyStr(Lower(Strip(Str(row[username_col.s]))))
    ELSE IF email_col # None THEN extract_username_from_email(row[email_col.s])
    ELSE None
BuildLectureUsernameMap(df, username_col, email_col) ==
    LET key(i) == LectureUsername(df.rows[i], username_col, email_col)
        rows == {i \in 1..Len(df.rows) : Truthy(key(i))}
    IN [k \in {key(i).s : i \in rows} |-> MaxOf({i \in rows : key(i).s = k})]

AssignStudentId(assign_row) == normalize_student_id(assign_row[assign_id_col.s])
AssignUsername(assign_row) ==
    IF assign_email_col = None THEN None
    ELSE extract_username_from_email(assign_row[assign_email_col.s])
\* student_key = assign_student_id or assign_username
AssignKey(assign_row) == PyOr(AssignStudentId(assign_row), AssignUsername(assign_row))

\* the row matched by username carries an id and the lecture row another one
IdDisagrees(assign_student_id, lecture_df, lecture_row_idx) ==
    /\ Truthy(assign_student_id)
    /\ lec_id_col # None
    /\ Truthy(normalize_student_id(lecture_df.rows[lecture_row_idx][lec_id_col.s]))
    /\ assign_student_id # normalize_student_id(lecture_df.rows[lecture_row_idx][lec_id_col.s])

\* the rows of the assignment whose key matched in no lecture table
OrphanedAssignRows(df, orphaned_students) ==
    SelectSeq(df.rows, LAMBDA r : Truthy(AssignKey(r)) /\ AssignKey(r) \in orphaned_students)

\* results['stats'][lecture_name] += the counters of one pass
AddStats(stats, lecture_name, t) ==
    [k \in DOMAIN stats \cup {lecture_name} |->
        IF k # lecture_name THEN stats[k]
        ELSE IF k \in DOMAIN stats
             THEN [stats[k] EXCEPT !.grades_updated = @ + t.grades_updated,
                                   !.matched_by_id = @ + t.matched_by_id,
                                   !.matched_by_email = @ + t.matched_by_email]
             ELSE [grades_updated |-> t.grades_updated,
                   matched_by_id |-> t.matched_by_id,
                   matched_by_email |-> t.matched_by_email,
                   columns_added |-> 0]]

LoadLectures ==
    /\ UNCHANGED <<lecture_files, masterVars, toolVars>>
    /\ pcA = "start"
    /\ lecture_dfs' = lecture_files
    /\ pcA' = "assignments"
    /\ UNCHANGED <<assignment_files, ai, lj, ri, assignment_df, assign_id_col,
                   assign_email_col, grade_col, abbrev_name,
                   all_assignment_students, students_matched_this_assignment,
                   lec_id_col, student_map, username_map, tally, merge_results,
                   assignLog>>

\* an assignment file is usable when its name parses and it has an id
\* column and a percent-score column
UsableAssignment(f) ==
    /\ Truthy(parse_assignment_filename(f.name))
    /\ find_student_id_column(f.df) # None
    /\ FindGradeCol(f.df) # None

SkipAssignment ==
    /\ UNCHANGED <<lecture_files, masterVars, toolVars>>
    /\ pcA = "assignments"
    /\ ai <= Len(assignment_files)
    /\ ~UsableAssignment(assignment_files[ai])
    /\ ai' = ai + 1
    /\ UNCHANGED <<pcA, assignment_files, lecture_dfs, lj, ri, assignment_df,
                   assign_id_col, assign_email_col, grade_col, abbrev_name,
                   all_assignment_students, students_matched_this_assignment,
                   lec_id_col, student_map, username_map, tally, merge_results,
                   assignLog>>

BeginAssignment ==
    /\ UNCHANGED <<lecture_files, masterVars, toolVars>>
    /\ pcA = "assignments"
    /\ ai <= Len(assignment_files)
    /\ UsableAssignment(assignment_files[ai])
    /\ abbrev_name' = parse_assignment_filename(assignment_files[ai].name)
    /\ assignment_df' = assignment_files[ai].df
    /\ assign_id_col' = find_student_id_column(assignment_files[ai].df)
    /\ assign_email_col' = find_email_column(assignment_files[ai].df)
    /\ grade_col' = FindGradeCol(assignment_files[ai].df)
    /\ all_assignment_students' = {}
    /\ students_matched_this_assignment' = {}
    /\ lj' = 1
    /\ pcA' = "lectures"
    /\ UNCHANGED <<assignment_files, lecture_dfs, ai, ri, lec_id_col,
                   student_map, username_map, tally, merge_results, assignLog>>

\* a lecture table with no id, email or username column
Unidentified(df) ==
    /\ find_student_id_column(df) = None
    /\ find_email_column(df) = None
    /\ find_username_column(df) = None

SkipLectureTable ==
    /\ UNCHANGED <<lecture_files, masterVars, toolVars>>
    /\ pcA = "lectures"
    /\ lj <= Len(lecture_dfs)
    /\ Unidentified(lecture_dfs[lj].df)
    /\ lj' = lj + 1
    /\ UNCHANGED <<pcA, assignment_files, lecture_dfs, ai, ri, assignment_df,
                   assign_id_col, assign_email_col, grade_col, abbrev_name,
                   all_assignment_students, students_matched_this_assignment,
                   lec_id_col, student_map, username_map, tally, merge_results,
                   assignLog>>

\* the lookup maps of a lecture table, and the assignment's column
IndexLectureTable ==
    /\ UNCHANGED <<lecture_files, masterVars, toolVars>>
    /\ pcA = "lectures"
    /\ lj <= Len(lecture_dfs)
    /\ ~Unidentified(lecture_dfs[lj].df)
    /\ lec_id_col' = find_student_id_column(lecture_dfs[lj].df)
    /\ student_map' = BuildIdMap(lecture_dfs[lj].df, find_student_id_column(lecture_dfs[lj].df))
    /\ username_map' = BuildLectureUsernameMap(lecture_dfs[lj].df,
                                               find_username_column(lecture_dfs[lj].df),
                                               find_email_column(lecture_dfs[lj].df))
    /\ lecture_dfs' = IF abbrev_name.s \in ColSet(lecture_dfs[lj].df) THEN lecture_dfs
                      ELSE [lecture_dfs EXCEPT ![lj].df = AddColumn(@, abbrev_name.s)]
    /\ merge_results' =
          IF \/ abbrev_name.s \in ColSet(lecture_dfs[lj].df)
             \/ \E k \in 1..Len(merge_results.new_columns) :
                   merge_results.new_columns[k] = abbrev_name.s
          THEN merge_results
          ELSE [merge_results EXCEPT !.new_columns = Append(@, abbrev_name.s)]
    /\ tally' = [grades_updated |-> 0, matched_by_id |-> 0, matched_by_email |-> 0,
                 failed_id_matches |-> <<>>]
    /\ ri' = 1
    /\ pcA' = "rows"
    /\ UNCHANGED <<assignment_files, ai, lj, assignment_df, assign_id_col,
                   assign_email_col, grade_col, abbrev_name,
                   all_assignment_students, students_matched_this_assignment,
                   assignLog>>

\* one assignment row against the current lecture table, hit being the
\* result of the lookup
AssignRowStep(assign_row, assign_student_id, student_key, base_grade, hit) ==
    /\ all_assignment_students' =
          IF Truthy(student_key) THEN all_assignment_students \cup {student_key}
          ELSE all_assignment_students
    /\ tally' =
          [grades_updated |->
               IF hit.idx # 0 /\ ~IsEmptyGrade(base_grade)
               THEN tally.grades_updated + 1 ELSE tally.grades_updated,
           matched_by_id |->
               IF hit.method = "id" THEN tally.matched_by_id + 1 ELSE tally.matched_by_id,
           matched_by_email |->
               IF hit.method = "email" THEN tally.matched_by_email + 1
               ELSE tally.matched_by_email,
           failed_id_matches |->
               IF /\ hit.method = "email"
                  /\ IdDisagrees(assign_student_id, lecture_dfs[lj].df, hit.idx)
               THEN Append(tally.failed_id_matches, assign_row)
               ELSE tally.failed_id_matches]
    /\ students_matched_this_assignment' =
          IF hit.idx # 0 THEN students_matched_this_assignment \cup {student_key}
          ELSE students_matched_this_assignment
    /\ merge_results' =
          IF hit.idx = 0 THEN merge_results
          ELSE [merge_results EXCEPT
                   !.matched_students = @ \cup {student_key},
                   !.match_methods.by_id = IF hit.method = "id" THEN @ + 1 ELSE @,
                   !.match_methods.by_email = IF hit.method = "id" THEN @ ELSE @ + 1]
    /\ lecture_dfs' =
          IF hit.idx # 0 /\ ~IsEmptyGrade(base_grade)
          THEN [lecture_dfs EXCEPT ![lj].df = SetCell(@, hit.idx, abbrev_name.s, base_grade)]
          ELSE lecture_dfs
    /\ assignLog' =
          IF hit.idx # 0 /\ ~IsEmptyGrade(base_grade)
          THEN Append(assignLog, [file |-> ai, arow |-> ri, lec |-> lj,
                                  drow |-> hit.idx, col |-> abbrev_name.s,
                                  value |-> base_grade, method |-> hit.method])
          ELSE assignLog

ProcessAssignmentRow ==
    /\ UNCHANGED <<lecture_files, masterVars, toolVars>>
    /\ pcA = "rows"
    /\ ri <= Len(assignment_df.rows)
    /\ AssignRowStep(assignment_df.rows[ri],
                     AssignStudentId(assignment_df.rows[ri]),
                     AssignKey(assignment_df.rows[ri]),
                     assignment_df.rows[ri][grade_col.s],
                     LookupStudent(AssignStudentId(assignment_df.rows[ri]),
                                   AssignUsername(assignment_df.rows[ri]),
                                   student_map, username_map))
    /\ ri' = ri + 1
    /\ UNCHANGED <<pcA, assignment_files, ai, lj, assignment_df, assign_id_col,
                   assign_email_col, grade_col, abbrev_name, lec_id_col,
                   student_map, username_map>>

\* the statistics and the id-mismatch rows of one lecture table
FinishLectureTable ==
    /\ UNCHANGED <<lecture_files, masterVars, toolVars>>
    /\ pcA = "rows"
    /\ ri > Len(assignment_df.rows)
    /\ merge_results' =
          [merge_results EXCEPT
              !.stats = AddStats(@, lecture_dfs[lj].name, tally),
              !.failed_id_match_rows = @ \o tally.failed_id_matches]
    /\ lj' = lj + 1
    /\ pcA' = "lectures"
    /\ UNCHANGED <<assignment_files, lecture_dfs, ai, ri, assignment_df,
                   assign_id_col, assign_email_col, grade_col, abbrev_name,
                   all_assignment_students, students_matched_this_assignment,
                   lec_id_col, student_map, username_map, tally, assignLog>>

\* the orphaned rows of one assignment, decided after its last lecture table
FinishAssignment ==
    /\ UNCHANGED <<lecture_files, masterVars, toolVars>>
    /\ pcA = "lectures"
    /\ lj > Len(lecture_dfs)
    /\ merge_results' =
          [merge_results EXCEPT
              !.orphaned_rows =
                  @ \o OrphanedAssignRows(assignment_df,
                          all_assignment_students \ students_matched_this_assignment)]
    /\ ai' = ai + 1
    /\ pcA' = "assignments"
    /\ UNCHANGED <<assignment_files, lecture_dfs, lj, ri, assignment_df,
                   assign_id_col, assign_email_col, grade_col, abbrev_name,
                   all_assignment_students, students_matched_this_assignment,
                   lec_id_col, student_map, username_map, tally, assignLog>>

\* every lecture table, with its columns ordered, is returned
ReturnTables ==
    /\ UNCHANGED <<lecture_files, masterVars, toolVars>>
    /\ pcA = "assignments"
    /\ ai > Len(assignment_files)
    /\ lecture_dfs' = [i \in 1..Len(lecture_dfs) |->
                          [name |-> lecture_dfs[i].name,
                           df |-> sort_assignment_columns(lecture_dfs[i].df)]]
    /\ merge_results' =
          [merge_results EXCEPT
              !.updated_dataframes =
                  [n \in {lecture_dfs[i].name : i \in 1..Len(lecture_dfs)} |->
                      sort_assignment_columns(
                          lecture_dfs[MaxOf({i \in 1..Len(lecture_dfs) :
                                               lecture_dfs[i].name = n})].df)]]
    /\ pcA' = "done"
    /\ UNCHANGED <<assignment_files, ai, lj, ri, assignment_df, assign_id_col,
                   assign_email_col, grade_col, abbrev_name,
                   all_assignment_students, students_matched_this_assignment,
                   lec_id_col, student_map, username_map, tally, assignLog>>

NextAssignments ==
    \/ LoadLectures
    \/ SkipAssignment
    \/ BeginAssignment
    \/ SkipLectureTable
    \/ IndexLectureTable
    \/ ProcessAssignmentRow
    \/ FinishLectureTable
    \/ FinishAssignment
    \/ ReturnTables

SpecAssignments == InitAssignments /\ [][NextAssignments]_vars

\* a call of either merge function
InitMerge == Init \/ InitAssignments
NextMerge == Next \/ NextAssignments
SpecMerge == InitMerge /\ [][NextMerge]_vars

(***************************************************************************)
(* Late-penalty rules (pyzy.score.late_score).  The numbers of the report  *)
(* and of the adjustments file are decimals; they are kept as integers of  *)
(* a fixed scale: days in tenths of a day, fractions in hundredths, scores *)
(* in hundredths of a point.                                               *)
(***************************************************************************)
MaxRules == 2

\* s.split(): the maximal runs of non-blank characters of s
RECURSIVE Split(_)
Split(s) ==
    LET sp == RunLen(s, 1, SpaceSet)
        t == SubSeq(s, sp + 1, Len(s))
        stops == {i \in 1..Len(t) : t[i] \in SpaceSet}
        n == IF stops = {} THEN Len(t) ELSE MinOf(stops) - 1
    IN IF t = <<>> THEN <<>>
       ELSE <<SubSeq(t, 1, n)>> \o Split(SubSeq(t, n + 1, Len(t)))

\* d.get(key, None)
DictGet(d, key) == IF key \in DOMAIN d THEN d[key] ELSE None

\* (1 - frac) * unpenalized_score
Penalized(frac, unpenalized_score) == ((100 - frac) * unpenalized_score) \div 100

no_adj == [matched |-> FALSE, rule |-> None, frac_deduction |-> 0]

\* a list value
PyList(v) == [t |-> "list", v |-> v]

\* the texts "all students" and "all assignments" of the rule descriptions
tAllStudents == <<"a","l","l"," ","s","t","u","d","e","n","t","s">>
tAllAssignments == <<"a","l","l"," ","a","s","s","i","g","n","m","e","n","t","s">>

\* the return of a rule without penalty; the rule description is kept as
\* the parts its text is formatted from
Waived_unmatched(unpenalized_score, week, who, what) ==
    [score |-> unpenalized_score, info |-> no_adj]
Waived(unpenalized_score, week, who, what) ==
    [score |-> unpenalized_score,
     info |-> [matched |-> TRUE,
               rule |-> [week |-> week, who |-> who, what |-> what,
                         waived |-> TRUE],
               frac_deduction |-> 0]]

\* the positions of the penalty list whose entry has a days-late key that
\* days_late does not exceed
Qualifying(penalty, days_late) ==
    {k \in 1..Len(penalty.v) : /\ "days-late" \in DOMAIN penalty.v[k]
                               /\ days_late <= penalty.v[k]["days-late"]}

\* for p in penalty: the return of the first qualifying entry, or None when
\* the loop ends without a return
ScanPenalty_lastEntry(penalty, days_late, unpenalized_score, week, who, what) ==
    LET hits == Qualifying(penalty, days_late)
    IN IF hits = {} THEN None
       ELSE LET p == penalty.v[MaxOf(hits)]
                frac == p["frac-deduction"]
            IN [score |-> Penalized(frac, unpenalized_score),
                info |-> [matched |-> TRUE,
                          rule |-> [week |-> week, who |-> who, what |-> what,
                                    waived |-> FALSE, frac |-> frac,
                                    days |-> p["days-late"]],
                          frac_deduction |-> frac]]
ScanPenalty(penalty, days_late, unpenalized_score, week, who, what) ==
    LET hits == Qualifying(penalty, days_late)
    IN IF hits = {} THEN None
       ELSE LET p == penalty.v[MinOf(hits)]
                frac == p["frac-deduction"]
            IN [score |-> Penalized(frac, unpenalized_score),
                info |-> [matched |-> TRUE,
                          rule |-> [week |-> week, who |-> who, what |-> what,
                                    waived |-> FALSE, frac |-> frac,
                                    days |-> p["days-late"]],
                          frac_deduction |-> frac]]

\* not penalty
NoPenalty(penalty) == penalty = None \/ penalty = PyList(<<>>)

\* the body of the loop over adjustments for the rule adj: the returned pair,
\* or None when the loop goes on to the next rule
RuleOutcome(row, adj) ==
    LET assignment == row["Assignment"]
        week == Split(assignment)[1]
        assn == Split(assignment)[2]
        student_name == row["First Name"] \o <<" ">> \o row["Last Name"]
        unpenalized_score == row["After Score"]
        days_late == row["Days Late"]
        penalty == DictGet(adj, "penalty")
        all_students == "student" \notin DOMAIN adj
        all_assn == "assignment" \notin DOMAIN adj
        adj_week == <<"W">> \o IntToStr(adj["week"])
    IN IF week # adj_week THEN None
       ELSE IF all_students /\ all_assn
       THEN IF NoPenalty(penalty)
            THEN Waived(unpenalized_score, week, tAllStudents, tAllAssignments)
            ELSE None
       ELSE IF all_students /\ ~all_assn
       THEN IF assn = adj["assignment"]
            THEN IF NoPenalty(penalty)
                 THEN Waived(unpenalized_score, week, tAllStudents, assn)
                 ELSE ScanPenalty(penalty, days_late, unpenalized_score,
                                  week, tAllStudents, assn)
            ELSE None
       ELSE IF ~all_students /\ all_assn
       THEN IF student_name = adj["student"]
            THEN IF NoPenalty(penalty)
                 THEN Waived(unpenalized_score, week, student_name, tAllAssignments)
                 ELSE ScanPenalty(penalty, days_late, unpenalized_score,
                                  week, student_name, tAllAssignments)
            ELSE None
       ELSE IF student_name = adj["student"] /\ assn = adj["assignment"]
            THEN IF NoPenalty(penalty)
                 THEN Waived(unpenalized_score, week, student_name, assn)
                 ELSE ScanPenalty(penalty, days_late, unpenalized_score,
                                  week, student_name, assn)
            ELSE None

\* the rows and the rules the calls are drawn from
nAnn == <<"A","n","n">>
nLee == <<"L","e","e">>
nBob == <<"B","o","b">>
nRay == <<"R","a","y">>
nAnnLee == <<"A","n","n"," ","L","e","e">>
aW1PA == <<"W","1"," ","P","A">>
aW1CA == <<"W","1"," ","C","A">>
kPA == <<"P","A">>

ReportRow(assignment, first, last, score, days) ==
    ("Assignment" :> assignment) @@ ("First Name" :> first) @@
    ("Last Name" :> last) @@ ("After Score" :> score) @@ ("Days Late" :> days)

LateRows ==
    { ReportRow(aW1PA, nAnn, nLee, 8000, 15),
      ReportRow(aW1PA, nAnn, nLee, 8000, 50),
      ReportRow(aW1PA, nBob, nRay, 6000, 5),
      ReportRow(aW1CA, nBob, nRay, 6000, 50) }

PenaltyEntry(days, frac) == ("days-late" :> days) @@ ("frac-deduction" :> frac)

RulePalette ==
    << ("week" :> 1) @@ ("assignment" :> kPA) @@
           ("penalty" :> PyList(<<PenaltyEntry(20, 10), PenaltyEntry(30, 30)>>)),
       ("week" :> 1),
       ("week" :> 1) @@ ("penalty" :> PyList(<<PenaltyEntry(100, 50)>>)),
       ("week" :> 1) @@ ("student" :> nAnnLee) @@ ("penalty" :> None),
       ("week" :> 1) @@ ("student" :> nAnnLee) @@
           ("penalty" :> PyList(<<PenaltyEntry(10, 20), PenaltyEntry(100, 50)>>)),
       ("week" :> 1) @@ ("student" :> nAnnLee) @@ ("assignment" :> kPA) @@
           ("penalty" :> PyList(<< ("frac-deduction" :> 100),
                                   PenaltyEntry(100, 30),
                                   PenaltyEntry(20, 10) >>)),
       ("week" :> 2) @@ ("assignment" :> kPA) @@ ("penalty" :> PyList(<<>>)) >>

\* the lists of at most MaxRules rules
RuleLists ==
    UNION { [1..n -> {RulePalette[k] : k \in 1..Len(RulePalette)}] : n \in 0..MaxRules }

\* a call of late_score(row, adjustments)
InitLateScore ==
    /\ pcL = "loop"
    /\ late_row \in LateRows
    /\ adjustments \in RuleLists
    /\ adj_pos = 1
    /\ late_ret = None
    /\ call = None
    /\ ret = None
    /\ lecture_files = <<>>
    /\ pc = "idle"
    /\ master_file = EmptyTable
    /\ MasterLocals
    /\ pcA = "idle"
    /\ assignment_files = <<>>
    /\ AssignLocals
    /\ BatchIdle

\* an iteration of the loop over adjustments that ends in continue or falls
\* off the end of its branch
NextAdjustment ==
    /\ pcL = "loop"
    /\ adj_pos <= Len(adjustments)
    /\ RuleOutcome(late_row, adjustments[adj_pos]) = None
    /\ adj_pos' = adj_pos + 1
    /\ UNCHANGED <<pcL, late_row, adjustments, late_ret>>
    /\ UNCHANGED <<lecture_files, masterVars, assignVars, callVars, batchVars>>

\* an iteration of the loop over adjustments that returns
ReturnAdjusted ==
    /\ pcL = "loop"
    /\ adj_pos <= Len(adjustments)
    /\ RuleOutcome(late_row, adjustments[adj_pos]) # None
    /\ late_ret' = RuleOutcome(late_row, adjustments[adj_pos])
    /\ pcL' = "done"
    /\ UNCHANGED <<late_row, adjustments, adj_pos>>
    /\ UNCHANGED <<lecture_files, masterVars, assignVars, callVars, batchVars>>

\* return unpenalized_score, no_adj
ReturnNoAdj ==
    /\ pcL = "loop"
    /\ adj_pos > Len(adjustments)
    /\ late_ret' = [score |-> late_row["After Score"], info |-> no_adj]
    /\ pcL' = "done"
    /\ UNCHANGED <<late_row, adjustments, adj_pos>>
    /\ UNCHANGED <<lecture_files, masterVars, assignVars, callVars, batchVars>>

NextLateScore ==
    \/ NextAdjustment
    \/ ReturnAdjusted
    \/ ReturnNoAdj

SpecLateScore == InitLateScore /\ [][NextLateScore]_vars

(***************************************************************************)
(* Single calls of the column-ordering, column-matching and id-normalising *)
(* functions.  A call of sort_assignment_columns is made on two tables     *)
(* that hold the same columns in two orders, so that the two results can   *)
(* be compared; a result can be passed to the function once more.          *)
(***************************************************************************)
MaxCols == 3
MaxId == 12

hW1CA == <<"W","1"," ","C","A">>
hW2PA == <<"W","2"," ","P","A">>
hW10PA == <<"W","1","0"," ","P","A">>
hW1Dash == <<"w","1","-","p","a">>
hW1PATotal == <<"W","1"," ","P","A"," ","T","o","t","a","l">>
hW1 == <<"W","1">>
hMetaOnly == <<"[","P","t","s","]">>

SortHeaders == {hStudentID, hWeek1Total, hW1PA, hW1PAMeta, hW1CA, hW2PA, hW10PA}
MatchHeaders == {hStudentID, hW1PAMeta, hW1Dash, hW1PATotal, hW1, hMetaOnly}
LabHeaders == {hW1PA, hW1PAMeta, hWeek1Total}
\* id cells: the integer n, the float n.0 and n.5, and strings around n
IdCells ==
    {NaN, None, PyStr(<<"a","b","c">>), PyStr(<<"1",".","2",".","3">>)}
    \cup UNION { { PyInt(n), PyFloat(n, 0), PyFloat(n, 5),
                   PyStr(IntToStr(n)),
                   PyStr(IntToStr(n) \o <<".","0">>),
                   PyStr(<<" ">> \o IntToStr(n) \o <<".","0","0"," ">>),
                   PyStr(<<"0">> \o IntToStr(n) \o <<".","0">>),
                   PyStr(IntToStr(n) \o <<".">>),
                   PyStr(IntToStr(n) \o <<".","5","0">>) } : n \in 0..MaxId }

ColumnsOnly(cols) == [cols |-> cols, rows |-> <<>>]

\* the merge functions are not running
MergeIdle ==
    /\ lecture_files = <<>>
    /\ pc = "idle"
    /\ master_file = EmptyTable
    /\ MasterLocals
    /\ pcA = "idle"
    /\ assignment_files = <<>>
    /\ AssignLocals

\* a call of one of the three functions
InitCalls ==
    /\ ret = None
    /\ \/ \E cols \in DistinctSeqs(SortHeaders, MaxCols) : \E cols2 \in Orders(cols) :
             call = [fn |-> "sort_assignment_columns", round |-> 1,
                     df |-> ColumnsOnly(cols), df2 |-> ColumnsOnly(cols2)]
       \/ \E lab_col \in LabHeaders : \E lecture_cols \in DistinctSeqs(MatchHeaders, MaxCols) :
             call = [fn |-> "find_matching_column",
                     lab_col |-> lab_col, lecture_cols |-> lecture_cols]
       \/ \E student_id \in IdCells :
             call = [fn |-> "normalize_student_id", round |-> 1,
                     student_id |-> student_id]
    /\ pcL = "idle"
    /\ late_row = <<>>
    /\ adjustments = <<>>
    /\ adj_pos = 0
    /\ late_ret = None
    /\ MergeIdle
    /\ BatchIdle

\* sort_assignment_columns(df), on each of the two tables
SortColumns ==
    /\ call.fn = "sort_assignment_columns"
    /\ ret = None
    /\ ret' = [df |-> sort_assignment_columns(call.df),
               df2 |-> sort_assignment_columns(call.df2)]
    /\ UNCHANGED <<call, lateVars, lecture_files, masterVars, assignVars, batchVars>>

\* sort_assignment_columns(sort_assignment_columns(df))
SortColumnsAgain ==
    /\ call.fn = "sort_assignment_columns"
    /\ call.round = 1
    /\ ret # None
    /\ call' = [call EXCEPT !.round = 2, !.df = ret.df, !.df2 = ret.df2]
    /\ ret' = [df |-> sort_assignment_columns(ret.df),
               df2 |-> sort_assignment_columns(ret.df2)]
    /\ UNCHANGED <<lateVars, lecture_files, masterVars, assignVars, batchVars>>

\* find_matching_column(lab_col, lecture_cols)
MatchColumn ==
    /\ call.fn = "find_matching_column"
    /\ ret = None
    /\ ret' = [col |-> find_matching_column(call.lab_col, call.lecture_cols)]
    /\ UNCHANGED <<call, lateVars, lecture_files, masterVars, assignVars, batchVars>>

\* normalize_student_id(student_id)
NormalizeId ==
    /\ call.fn = "normalize_student_id"
    /\ ret = None
    /\ ret' = [id |-> normalize_student_id(call.student_id)]
    /\ UNCHANGED <<call, lateVars, lecture_files, masterVars, assignVars, batchVars>>

\* normalize_student_id(normalize_student_id(student_id))
NormalizeIdAgain ==
    /\ call.fn = "normalize_student_id"
    /\ call.round = 1
    /\ ret # None
    /\ call' = [call EXCEPT !.round = 2, !.student_id = ret.id]
    /\ ret' = [id |-> normalize_student_id(ret.id)]
    /\ UNCHANGED <<lateVars, lecture_files, masterVars, assignVars, batchVars>>

NextCalls ==
    \/ SortColumns
    \/ SortColumnsAgain
    \/ MatchColumn
    \/ NormalizeId
    \/ NormalizeIdAgain

SpecCalls == InitCalls /\ [][NextCalls]_vars

(***************************************************************************)
(* Deadline-lift merge (pyzy.score): the pairing of the exports of the two *)
(* directories and the merge of one pair.  Scores are in hundredths of a   *)
(* point.  A date cell is a text; the texts that parse as a time are       *)
(* written as the number of tenths of a day since the start of the term,   *)
(* with or without the suffix ' EST'.                                      *)
(***************************************************************************)
\* the first position of sub in s, or 0
FirstAt(sub, s) ==
    LET at == {i \in 1..(Len(s) - Len(sub) + 1) : SubSeq(s, i, i + Len(sub) - 1) = sub}
    IN IF at = {} THEN 0 ELSE MinOf(at)
\* s.replace(sub, '')
RECURSIVE RemoveAll(_, _)
RemoveAll(s, sub) ==
    IF FirstAt(sub, s) = 0 THEN s
    ELSE SubSeq(s, 1, FirstAt(sub, s) - 1)
         \o RemoveAll(SubSeq(s, FirstAt(sub, s) + Len(sub), Len(s)), sub)
\* re.sub(r'_+', '_', s)
RECURSIVE SqueezeUnderscores(_)
SqueezeUnderscores(s) ==
    IF Len(s) < 2 THEN s
    ELSE IF s[1] = "_" /\ s[2] = "_" THEN SqueezeUnderscores(Tail(s))
    ELSE <<s[1]>> \o SqueezeUnderscores(Tail(s))

NameSuffixes ==
    << <<"_","b","e","f","o","r","e">>, <<"_","a","f","t","e","r">>, <<"_","d","e","a","d","l","i","n","e">>, <<"_","l","i","f","t","e","d">>, <<"_","o","r","i","g","i","n","a","l">>, <<"_","e","x","t","e","n","d","e","d">> >>
RECURSIVE DropSuffixes(_, _)
DropSuffixes(stem, k) ==
    IF k > Len(NameSuffixes) THEN stem
    ELSE DropSuffixes(RemoveAll(stem, NameSuffixes[k]), k + 1)

normalize_assignment_name(filename) ==
    LET stem0 == Lower(Stem(filename))
        stem1 == IF FirstAt(<<"_","r","e","p","o","r","t">>, stem0) = 0 THEN stem0
                 ELSE SubSeq(stem0, 1, FirstAt(<<"_","r","e","p","o","r","t">>, stem0) - 1)
        stem2 == IF FirstAt(<<"w","e","e","k">>, stem1) = 0 THEN stem1
                 ELSE SubSeq(stem1, FirstAt(<<"w","e","e","k">>, stem1), Len(stem1))
    IN StripSet(SqueezeUnderscores(DropSuffixes(stem2, 1)), {"_"})

parse_assignment_filename_short(filename) ==
    LET at == {p \in 1..Len(Stem(filename)) : LongFormAt(Stem(filename), p).ok}
    IN IF at # {} /\ LongFormName(LongFormAt(Stem(filename), MinOf(at))) # None
       THEN LongFormName(LongFormAt(Stem(filename), MinOf(at))).s
       ELSE Stem(filename)

\* the file a dict comprehension over the directory keeps for the key
\* norm_name: the last one in directory order
LastWithName(dir, norm_name) ==
    dir.files[MaxOf({i \in 1..Len(dir.files) :
                        normalize_assignment_name(dir.files[i].name) = norm_name})]
\* the normalized names of the directory in the order of their first file
RECURSIVE NormNames(_, _)
NormNames(dir, i) ==
    IF i > Len(dir.files) THEN <<>>
    ELSE LET n == normalize_assignment_name(dir.files[i].name)
         IN IF \E j \in 1..(i - 1) : normalize_assignment_name(dir.files[j].name) = n
            THEN NormNames(dir, i + 1)
            ELSE <<n>> \o NormNames(dir, i + 1)

match_files_between_directories(d_dir, l_dir) ==
    LET names == NormNames(d_dir, 1)
        inLifted(n) == \E j \in 1..Len(l_dir.files) :
                          normalize_assignment_name(l_dir.files[j].name) = n
        pair(n) == [deadline_file |-> LastWithName(d_dir, n),
                    lifted_file |-> LastWithName(l_dir, n),
                    assignment_name |->
                        parse_assignment_filename_short(LastWithName(d_dir, n).name)]
        RECURSIVE pairs(_)
        pairs(k) == IF k > Len(names) THEN <<>>
                    ELSE IF inLifted(names[k]) THEN <<pair(names[k])>> \o pairs(k + 1)
                    ELSE pairs(k + 1)
    IN pairs(1)

\* late_score(row, adjustments) for an assignment name of two words or more
late_score(row, adjs) ==
    LET hits == {k \in 1..Len(adjs) : RuleOutcome(row, adjs[k]) # None}
    IN IF hits = {} THEN [score |-> row["After Score"], info |-> no_adj]
       ELSE RuleOutcome(row, adjs[MinOf(hits)])

\* the last column whose lowered header contains the text, or None
LastColWith(df, text) ==
    LET hits == {i \in 1..Len(df.cols) : Contains(text, Lower(df.cols[i]))}
    IN IF hits = {} THEN None ELSE PyStr(df.cols[MaxOf(hits)])
DueDateCol(df) == LastColWith(df, <<"d","u","e"," ","d","a","t","e">>)
\* the elif: a header with 'due date' in it is never the score date column
ScoreDateCol(df) ==
    LET hits == {i \in 1..Len(df.cols) :
                    /\ ~Contains(<<"d","u","e"," ","d","a","t","e">>, Lower(df.cols[i]))
                    /\ Contains(<<"s","c","o","r","e"," ","d","a","t","e">>, Lower(df.cols[i]))}
    IN IF hits = {} THEN None ELSE PyStr(df.cols[MaxOf(hits)])

\* first_name and last_name as the loop over the row's columns leaves them
NameCell(df, row, word) ==
    LET taken(i) == /\ Contains(<<"n","a","m","e">>, Lower(df.cols[i]))
                    /\ IF word = <<"f","i","r","s","t">> THEN Contains(<<"f","i","r","s","t">>, Lower(df.cols[i]))
                       ELSE /\ ~Contains(<<"f","i","r","s","t">>, Lower(df.cols[i]))
                            /\ Contains(<<"l","a","s","t">>, Lower(df.cols[i]))
        hits == {i \in 1..Len(df.cols) : taken(i)}
    IN IF hits = {} THEN <<>>
       ELSE IF IsNa(row[df.cols[MaxOf(hits)]]) THEN <<>>
       ELSE Str(row[df.cols[MaxOf(hits)]])

\* pd.to_datetime of the text without ' EST': the time, or None when the
\* text does not parse
ToDatetime(cell) ==
    LET text == RemoveAll(Str(cell), <<" ","E","S","T">>)
    IN IF text # <<>> /\ \A i \in 1..Len(text) : text[i] \in DigitSet
       THEN PyInt(StrToInt(text)) ELSE None
\* round((score_date_dt - due_date).total_seconds() / 3600 / 24, 1), and 0
\* when a date does not parse
DaysLate(due, score_date) ==
    IF ToDatetime(due) = None \/ ToDatetime(score_date) = None THEN 0
    ELSE ToDatetime(score_date).v - ToDatetime(due).v

\* the after-file row of a before-file row: by id if the id is carried by
\* an after-file row, else by username
AfterRow(after_df, after_id_col, after_email_col, student_id, username) ==
    LET byId == {i \in 1..Len(after_df.rows) :
                    /\ Truthy(student_id)
                    /\ normalize_student_id(after_df.rows[i][after_id_col.s]) = student_id}
        byName == IF after_email_col = None THEN {}
                  ELSE {i \in 1..Len(after_df.rows) :
                          /\ Truthy(username)
                          /\ extract_username_from_email(
                                 after_df.rows[i][after_email_col.s]) = username}
    IN IF byId # {} THEN [idx |-> MaxOf(byId), match_method |-> "ID"]
       ELSE IF byName # {} THEN [idx |-> MaxOf(byName), match_method |-> "username"]
       ELSE [idx |-> 0, match_method |-> "none"]

\* cell == 0 for a score cell
IsZero(cell) ==
    \/ cell.t = "int" /\ cell.v = 0
    \/ cell.t = "float" /\ cell.w = 0 /\ cell.f = 0

CellOr(row, col, default) == IF col = None THEN default ELSE row[col.s]

\* the columns of the before file that the loop uses
LoopCols(before_df) ==
    [id |-> find_student_id_column(before_df),
     email |-> find_email_column(before_df),
     score |-> FindGradeCol(before_df),
     due_date |-> DueDateCol(before_df),
     score_date |-> ScoreDateCol(before_df)]

\* the after-file row of the before-file row at before_idx
HitOf(before_df, after_df, before_idx, cols) ==
    AfterRow(after_df, find_student_id_column(after_df), find_email_column(after_df),
             normalize_student_id(before_df.rows[before_idx][cols.id.s]),
             IF cols.email = None THEN None
             ELSE extract_username_from_email(before_df.rows[before_idx][cols.email.s]))

\* whether the late rules are consulted for the row
Dated(adjs, cols, after_score_date) ==
    /\ adjs # None
    /\ cols.due_date # None /\ cols.score_date # None
    /\ Truthy(after_score_date)

\* the records of the two lists; src_row, the position of the row in the
\* before file, is kept for the properties and is no column of the reports
TrueZeroRecord(before_row, before_idx, assignment_name, cols, first_name, last_name) ==
    ("Assignment" :> PyStr(assignment_name)) @@ ("Last Name" :> PyStr(last_name))
    @@ ("First Name" :> PyStr(first_name))
    @@ ("Student ID" :> normalize_student_id(before_row[cols.id.s]))
    @@ ("Due Date" :> CellOr(before_row, cols.due_date, sEmpty))
    @@ ("Score Date" :> CellOr(before_row, cols.score_date, sEmpty))
    @@ ("School Email" :> CellOr(before_row, cols.email, sEmpty))
    @@ ("src_row" :> PyInt(before_idx))

AuditRecord(before_row, before_idx, assignment_name, cols, first_name, last_name, match_method, after_score, after_score_date, days_late, scored) ==
    ("Assignment" :> PyStr(assignment_name)) @@ ("Last Name" :> PyStr(last_name))
    @@ ("First Name" :> PyStr(first_name))
    @@ ("Student ID" :> normalize_student_id(before_row[cols.id.s]))
    @@ ("Match Method" :> match_method)
    @@ ("Before Score" :> before_row[cols.score.s]) @@ ("After Score" :> after_score)
    @@ ("Applied Score" :> PyInt(scored.score))
    @@ ("Days Late" :> days_late)
    @@ ("Adjustment Matched" :> scored.info.matched)
    @@ ("Adjustment Rule" :> IF scored.info.rule = None THEN sEmpty ELSE scored.info.rule)
    @@ ("Frac Deduction" :> scored.info.frac_deduction)
    @@ ("Before Score Date" :> CellOr(before_row, cols.score_date, sEmpty))
    @@ ("After Score Date" :> IF Truthy(after_score_date) THEN after_score_date ELSE sEmpty)
    @@ ("Due Date" :> CellOr(before_row, cols.due_date, sEmpty))
    @@ ("src_row" :> PyInt(before_idx))

\* the applied score of a matched row that is not a true zero: the score
\* of the after file, or what late_score makes of it
AppliedScore(assignment_name, adjs, dated, first_name, last_name, after_score, days_late) ==
    IF dated
    THEN late_score(ReportRow(assignment_name, first_name, last_name,
                              after_score.v, days_late), adjs.v)
    ELSE [score |-> after_score.v, info |-> no_adj]

\* the write and the audit record of a matched row that is not a true zero
UpdateStep(before_row, before_idx, assignment_name, cols, first_name, last_name, match_method, after_score, after_score_date, days_late, scored) ==
    [kind |-> "update",
     applied_score |-> PyInt(scored.score),
     score_col |-> cols.score.s,
     score_date |-> IF cols.score_date # None /\ Truthy(after_score_date)
                    THEN [col |-> cols.score_date.s, value |-> after_score_date]
                    ELSE None,
     record |-> AuditRecord(before_row, before_idx, assignment_name, cols, first_name,
                            last_name, match_method, after_score, after_score_date,
                            days_late, scored)]

\* a matched row that is not a true zero, dated or not
LateStep(before_row, before_idx, assignment_name, adjs, cols, first_name, last_name, match_method, after_score, after_score_date, dated, days_late) ==
    IF dated /\ Len(Split(assignment_name)) < 2
    THEN [kind |-> "raise"]
    ELSE UpdateStep(before_row, before_idx, assignment_name, cols, first_name, last_name,
                    match_method, after_score, after_score_date, days_late,
                    AppliedScore(assignment_name, adjs, dated, first_name, last_name,
                                 after_score, days_late))

\* a matched row: a true zero, or an update
MatchedStep_zeroIsUpdate(before_row, after_row, before_idx, assignment_name, adjs, cols, first_name, last_name, match_method, after_score_date) ==
    LateStep(before_row, before_idx, assignment_name, adjs, cols, first_name,
             last_name, match_method, after_row[cols.score.s], after_score_date,
             Dated(adjs, cols, after_score_date),
             IF Dated(adjs, cols, after_score_date)
             THEN DaysLate(before_row[cols.due_date.s], after_score_date)
             ELSE 0)
MatchedStep(before_row, after_row, before_idx, assignment_name, adjs, cols, first_name, last_name, match_method, after_score_date) ==
    IF IsZero(before_row[cols.score.s]) /\ IsZero(after_row[cols.score.s])
    THEN [kind |-> "true_zero",
          record |-> TrueZeroRecord(before_row, before_idx, assignment_name, cols,
                                    first_name, last_name)]
    ELSE LateStep(before_row, before_idx, assignment_name, adjs, cols, first_name,
                  last_name, match_method, after_row[cols.score.s], after_score_date,
                  Dated(adjs, cols, after_score_date),
                  IF Dated(adjs, cols, after_score_date)
                  THEN DaysLate(before_row[cols.due_date.s], after_score_date)
                  ELSE 0)

\* the row with the after-file row hit found for it: no row, a row that
\* lacks a column the loop reads, or a matched row
HitStep_unmatchedTrueZero(before_df, after_df, before_idx, assignment_name, adjs, cols, hit) ==
    IF hit.idx = 0
    THEN [kind |-> "true_zero",
          record |-> TrueZeroRecord(before_df.rows[before_idx], before_idx,
                                    assignment_name, cols, <<>>, <<>>)]
    ELSE MatchedStep(before_df.rows[before_idx], after_df.rows[hit.idx], before_idx,
                     assignment_name, adjs, cols,
                     NameCell(before_df, before_df.rows[before_idx], <<"f","i","r","s","t">>),
                     NameCell(before_df, before_df.rows[before_idx], <<"l","a","s","t">>),
                     hit.match_method,
                     CellOr(after_df.rows[hit.idx], cols.score_date, None))
HitStep(before_df, after_df, before_idx, assignment_name, adjs, cols, hit) ==
    IF hit.idx = 0 THEN [kind |-> "skip"]
    ELSE IF \/ cols.score.s \notin ColSet(after_df)
            \/ cols.score_date # None /\ cols.score_date.s \notin ColSet(after_df)
    THEN [kind |-> "raise"]
    ELSE MatchedStep(before_df.rows[before_idx], after_df.rows[hit.idx], before_idx,
                     assignment_name, adjs, cols,
                     NameCell(before_df, before_df.rows[before_idx], <<"f","i","r","s","t">>),
                     NameCell(before_df, before_df.rows[before_idx], <<"l","a","s","t">>),
                     hit.match_method,
                     CellOr(after_df.rows[hit.idx], cols.score_date, None))

\* one iteration of the loop over the before-file rows: what it does
\* (skip, true_zero, update or raise) and what it appends or writes
BeforeRowStep(before_df, after_df, before_idx, assignment_name, adjs) ==
    HitStep(before_df, after_df, before_idx, assignment_name, adjs, LoopCols(before_df),
            HitOf(before_df, after_df, before_idx, LoopCols(before_df)))

\* what an iteration leaves of the merged table and the two record lists
AfterStep(acc, before_idx, step) ==
    CASE step.kind = "skip" -> acc
      [] step.kind = "raise" -> [acc EXCEPT !.ok = FALSE]
      [] step.kind = "true_zero" ->
           [acc EXCEPT !.true_zero_records = Append(@, step.record)]
      [] step.kind = "update" ->
           [acc EXCEPT
              !.audit_records = Append(@, step.record),
              !.merged_df =
                  IF step.score_date = None
                  THEN SetCell(@, before_idx, step.score_col, step.applied_score)
                  ELSE SetCell(SetCell(@, before_idx, step.score_col, step.applied_score),
                               before_idx, step.score_date.col, step.score_date.value)]

\* the loop over the before-file rows from before_idx on
RECURSIVE MergeRows(_, _, _, _, _, _)
MergeRows(before_df, after_df, before_idx, assignment_name, adjs, acc) ==
    IF before_idx > Len(before_df.rows) \/ ~acc.ok THEN acc
    ELSE MergeRows(before_df, after_df, before_idx + 1, assignment_name, adjs,
                   AfterStep(acc, before_idx,
                             BeforeRowStep(before_df, after_df, before_idx,
                                           assignment_name, adjs)))

\* merge_single_assignment: ok is FALSE when the call raises
merge_single_assignment(before_file, after_file, assignment_name, adjs) ==
    IF \/ find_student_id_column(before_file.df) = None
       \/ find_student_id_column(after_file.df) = None
       \/ FindGradeCol(before_file.df) = None
    THEN [ok |-> FALSE, merged_df |-> EmptyTable, audit_records |-> <<>>,
          true_zero_records |-> <<>>]
    ELSE MergeRows(before_file.df, after_file.df, 1, assignment_name, adjs,
                   [ok |-> TRUE, merged_df |-> before_file.df,
                    audit_records |-> <<>>, true_zero_records |-> <<>>])

\* the headers of a zyBooks export
hLastname == <<"L","a","s","t"," ","n","a","m","e">>
hFirstname == <<"F","i","r","s","t"," ","n","a","m","e">>
hPrimaryEmail == <<"P","r","i","m","a","r","y"," ","e","m","a","i","l">>
hDueDate == <<"D","u","e"," ","d","a","t","e">>
hScoreDate == <<"S","c","o","r","e"," ","d","a","t","e">>

\* the score of the merged export after the late entries of one assignment
\* are written back by student id
RECURSIVE ApplyLates(_, _, _)
ApplyLates(df, lates, k) ==
    IF k > Len(lates) THEN df
    ELSE ApplyLates(
           [df EXCEPT !.rows =
               [i \in 1..Len(df.rows) |->
                   IF normalize_student_id(df.rows[i][hStudentID]) = lates[k]["Student ID"]
                   THEN [df.rows[i] EXCEPT ![hPercentScore] = lates[k]["Applied Score"]]
                   ELSE df.rows[i]]],
           lates, k + 1)

\* assignment_data['School email'].str.replace('@drexel.edu', '')
UsernameCell(cell) ==
    IF cell.t = "str" THEN PyStr(RemoveAll(cell.s, <<"@","d","r","e","x","e","l",".","e","d","u">>)) ELSE NaN
WithUsername(df) ==
    LET wide == AddColumn(df, hUsername)
    IN [wide EXCEPT !.rows =
           [i \in 1..Len(wide.rows) |->
               [wide.rows[i] EXCEPT ![hUsername] = UsernameCell(wide.rows[i][hSchoolEmail])]]]

BBLearnCols ==
    <<hLastname, hFirstname, hPrimaryEmail, hSchoolEmail, hStudentID, hPercentScore>>
\* assignment_data[[...]]
Project(df, cols) ==
    [cols |-> cols,
     rows |-> [i \in 1..Len(df.rows) |->
                 [c \in {cols[k] : k \in 1..Len(cols)} |-> df.rows[i][c]]]]

\* the files of the output directory: a table file carries df, a report
\* file carries records
TableFile(name, df) == [name |-> name, df |-> df, records |-> <<>>]
ReportFile(name, records) == [name |-> name, df |-> EmptyTable, records |-> records]
\* to_csv(path): the file of that name is replaced, or added
WriteFile(files, file) ==
    IF \E i \in 1..Len(files) : files[i].name = file.name
    THEN [i \in 1..Len(files) |-> IF files[i].name = file.name THEN file ELSE files[i]]
    ELSE Append(files, file)
FileNamed(files, name) ==
    files[CHOOSE i \in 1..Len(files) : files[i].name = name]

fAllLate == <<"a","l","l","_","l","a","t","e","_","s","u","b","m","i","s","s","i","o","n","s",".","c","s","v">>
fAllTrueZeros == <<"a","l","l","_","t","r","u","e","_","z","e","r","o","s",".","c","s","v">>
MergedName(assignment) == assignment \o <<"_","m","e","r","g","e","d",".","c","s","v">>
ScoredName(assignment) == assignment \o <<"_","s","c","o","r","e","d",".","c","s","v">>
BBLearnName(assignment) == assignment \o <<"_","b","b","l","e","a","r","n",".","c","s","v">>

\* the records of a list that carry the assignment name
RecordsOf(records, assignment) ==
    SelectSeq(records, LAMBDA r : r["Assignment"] = PyStr(assignment))

\* the loop over processed_assignments after the batch: the scored table
\* and the upload extract of each
RECURSIVE WriteExtracts(_, _, _, _)
WriteExtracts(files, processed, audit, k) ==
    IF k > Len(processed) THEN files
    ELSE LET assignment == processed[k]
             assignment_data == WithUsername(FileNamed(files, MergedName(assignment)).df)
             scored == IF audit = <<>> THEN assignment_data
                       ELSE ApplyLates(assignment_data, RecordsOf(audit, assignment), 1)
             files1 == IF audit = <<>> THEN files
                       ELSE WriteFile(files, TableFile(ScoredName(assignment), scored))
         IN WriteExtracts(
                WriteFile(files1, TableFile(BBLearnName(assignment),
                                            Project(scored, BBLearnCols))),
                processed, audit, k + 1)

\* the exports the runs are drawn from.  A cell of a date column that the
\* merge parses is a text.
MaxPairs == 2

ScoreCols ==
    <<hLastname, hFirstname, hPrimaryEmail, hSchoolEmail, hStudentID, hPercentScore,
      hDueDate, hScoreDate>>
dDue == PyStr(<<"1","0","0"," ","E","S","T">>)
ExportRow(last, first, mail, id, score, date) ==
    <<PyStr(last), PyStr(first), PyStr(mail), PyStr(mail), id, PyInt(score), dDue, date>>
mAnn == <<"a","n","n","@","d","r","e","x","e","l",".","e","d","u">>
mBob == <<"b","o","b","@","d","r","e","x","e","l",".","e","d","u">>
mCy == <<"c","y","@","d","r","e","x","e","l",".","e","d","u">>
nCy == <<"C","y">>
nOtt == <<"O","t","t">>
nDee == <<"D","e","e">>
nFox == <<"F","o","x">>
mDee == <<"d","e","e","@","d","r","e","x","e","l",".","e","d","u">>

\* the export at the deadline: a submission, two students without one, and
\* a student whose score is already full
BeforeExport ==
    MkTable(ScoreCols,
        << ExportRow(nLee, nAnn, mAnn, PyInt(101), 5000, PyStr(<<"9","0"," ","E","S","T">>)),
           ExportRow(nRay, nBob, mBob, PyInt(102), 0, NaN),
           ExportRow(nOtt, nCy, mCy, PyInt(103), 0, NaN),
           ExportRow(nFox, nDee, mDee, PyInt(104), 10000, PyStr(<<"8","0"," ","E","S","T">>)) >>)
\* after the lift: a better and a first submission, both late; the third
\* student has left the course
AfterLate ==
    MkTable(ScoreCols,
        << ExportRow(nLee, nAnn, mAnn, PyInt(101), 8000, PyStr(<<"1","1","5"," ","E","S","T">>)),
           ExportRow(nRay, nBob, mBob, PyInt(102), 6000, PyStr(<<"1","5","0">>)),
           ExportRow(nFox, nDee, mDee, PyInt(104), 10000, PyStr(<<"8","0"," ","E","S","T">>)) >>)
\* after the lift: nothing new, and the second student still without a
\* submission
AfterSame ==
    MkTable(ScoreCols,
        << ExportRow(nLee, nAnn, mAnn, PyInt(101), 5000, PyStr(<<"9","0"," ","E","S","T">>)),
           ExportRow(nRay, nBob, mBob, PyInt(102), 0, NaN),
           ExportRow(nFox, nDee, mDee, PyInt(104), 10000, PyStr(<<"8","0"," ","E","S","T">>)) >>)
\* after the lift: a resubmission at the deadline, and a first submission
\* of a row without id whose date does not parse
AfterOnTime ==
    MkTable(ScoreCols,
        << ExportRow(nLee, nAnn, mAnn, PyInt(101), 8000, PyStr(<<"1","0","0"," ","E","S","T">>)),
           ExportRow(nRay, nBob, mBob, NaN, 6000, PyStr(<<"n","/","a">>)) >>)
\* an export without a student id column
NoIdExport ==
    MkTable(<<hLastname, hFirstname, hSchoolEmail, hPercentScore>>,
        << <<PyStr(nLee), PyStr(nAnn), PyStr(mAnn), PyInt(5000)>> >>)

ExportFile(name, df) == [name |-> name, df |-> df]
DeadlineFiles ==
    << ExportFile(<<"W","e","e","k","_","1","_","P","a","r","t","i","c","i","p","a","t","i","o","n","_","A","c","t","i","v","i","t","i","e","s","_","b","e","f","o","r","e",".","c","s","v">>, BeforeExport),
       ExportFile(<<"q","u","i","z","_","b","e","f","o","r","e",".","c","s","v">>, BeforeExport),
       ExportFile(<<"W","e","e","k","_","2","_","C","h","a","l","l","e","n","g","e","_","A","c","t","i","v","i","t","i","e","s","_","r","e","p","o","r","t","_","b","e","f","o","r","e",".","c","s","v">>, NoIdExport),
       ExportFile(<<"W","e","e","k","_","3","_","I","n","-","L","a","b","_","L","a","b","s",".","c","s","v">>, BeforeExport) >>
LiftedFiles ==
    << ExportFile(<<"W","e","e","k","_","1","_","P","a","r","t","i","c","i","p","a","t","i","o","n","_","A","c","t","i","v","i","t","i","e","s","_","a","f","t","e","r",".","c","s","v">>, AfterLate),
       ExportFile(<<"W","e","e","k","_","1","_","P","a","r","t","i","c","i","p","a","t","i","o","n","_","A","c","t","i","v","i","t","i","e","s","_","l","i","f","t","e","d",".","c","s","v">>, AfterSame),
       ExportFile(<<"z","y","_","W","e","e","k","_","1","_","P","a","r","t","i","c","i","p","a","t","i","o","n","_","A","c","t","i","v","i","t","i","e","s","_","r","e","p","o","r","t","_","e","x","t","e","n","d","e","d",".","c","s","v">>, AfterOnTime),
       ExportFile(<<"q","u","i","z","_","a","f","t","e","r",".","c","s","v">>, AfterLate),
       ExportFile(<<"W","e","e","k","_","2","_","C","h","a","l","l","e","n","g","e","_","A","c","t","i","v","i","t","i","e","s","_","r","e","p","o","r","t","_","l","i","f","t","e","d",".","c","s","v">>, AfterLate) >>

NoDirectory == [exists |-> FALSE, files |-> <<>>]
\* a directory holds up to MaxPairs files of the palette, listed in the
\* order of the palette
Directories(palette) ==
    {NoDirectory} \cup
    UNION {{[exists |-> TRUE, files |-> [i \in 1..k |-> palette[f[i]]]] :
                f \in IncreasingSeqs(Len(palette), k)} : k \in 0..MaxPairs}

\* the rules of the adjustments files
AdjustmentLists ==
    { <<>>,
      << ("week" :> 1) @@ ("assignment" :> kPA) @@
             ("penalty" :> PyList(<<PenaltyEntry(20, 10), PenaltyEntry(70, 50)>>)) >>,
      << ("week" :> 1) @@ ("student" :> nAnnLee) @@ ("penalty" :> None),
         ("week" :> 1) @@ ("penalty" :> PyList(<<PenaltyEntry(20, 20)>>)) >>,
      << ("week" :> 1) >> }
\* None when the option is not given; else whether the file exists, and
\* what yaml.safe_load reads from it
AdjustmentsFiles ==
    {None, [exists |-> FALSE, rules |-> <<>>]}
    \cup {[exists |-> TRUE, rules |-> r] : r \in AdjustmentLists}

\* the checks of run_score that end the run with sys.exit(1)
FatalError_adjustmentsOptional(d_dir, l_dir, adj_file) ==
    \/ ~d_dir.exists
    \/ ~l_dir.exists
    \/ match_files_between_directories(d_dir, l_dir) = <<>>
FatalError(d_dir, l_dir, adj_file) ==
    \/ ~d_dir.exists
    \/ ~l_dir.exists
    \/ match_files_between_directories(d_dir, l_dir) = <<>>
    \/ adj_file # None /\ ~adj_file.exists

InitScore ==
    /\ pcS = "start"
    /\ deadline_dir \in Directories(DeadlineFiles)
    /\ lifted_dir \in Directories(LiftedFiles)
    /\ adjustments_file \in AdjustmentsFiles
    /\ matches = <<>>
    /\ match_pos = 0
    /\ loaded_adjustments = None
    /\ all_audit_records = <<>>
    /\ all_true_zero_records = <<>>
    /\ processed_assignments = <<>>
    /\ out_files = <<>>
    /\ exit_status = None
    /\ MergeIdle
    /\ LateCallIdle
    /\ ActivityIdle
    /\ WebIdle

\* run_score up to the loop over the pairs
CheckInputs ==
    /\ pcS = "start"
    /\ IF FatalError(deadline_dir, lifted_dir, adjustments_file)
       THEN /\ pcS' = "exit"
            /\ exit_status' = PyInt(1)
            /\ UNCHANGED <<matches, match_pos, loaded_adjustments>>
       ELSE /\ pcS' = "pairs"
            /\ matches' = match_files_between_directories(deadline_dir, lifted_dir)
            /\ match_pos' = 1
            /\ loaded_adjustments' = IF adjustments_file = None THEN None
                                     ELSE PyList(adjustments_file.rules)
            /\ UNCHANGED exit_status
    /\ UNCHANGED <<deadline_dir, lifted_dir, adjustments_file, all_audit_records,
                   all_true_zero_records, processed_assignments, out_files>>
    /\ UNCHANGED <<lecture_files, masterVars, assignVars, lateVars, callVars,
                   activityVars, webVars>>

\* the call of merge_single_assignment for the pair at match_pos
PairResult ==
    merge_single_assignment(matches[match_pos].deadline_file,
                            matches[match_pos].lifted_file,
                            matches[match_pos].assignment_name,
                            loaded_adjustments)

\* an iteration of the loop over the pairs whose try block completes
ProcessPair ==
    /\ pcS = "pairs"
    /\ match_pos <= Len(matches)
    /\ \E result \in {PairResult} :
          /\ result.ok
          /\ out_files' = WriteFile(out_files,
                              TableFile(MergedName(matches[match_pos].assignment_name),
                                        result.merged_df))
          /\ all_audit_records' = all_audit_records \o result.audit_records
          /\ all_true_zero_records' = all_true_zero_records \o result.true_zero_records
    /\ processed_assignments' =
           Append(processed_assignments, matches[match_pos].assignment_name)
    /\ match_pos' = match_pos + 1
    /\ UNCHANGED <<pcS, deadline_dir, lifted_dir, adjustments_file, matches,
                   loaded_adjustments, exit_status>>
    /\ UNCHANGED <<lecture_files, masterVars, assignVars, lateVars, callVars,
                   activityVars, webVars>>

\* an iteration whose merge raises: except Exception: continue
SkipPair_writesTable ==
    /\ pcS = "pairs"
    /\ match_pos <= Len(matches)
    /\ ~PairResult.ok
    /\ match_pos' = match_pos + 1
    /\ out_files' = WriteFile(out_files,
                              TableFile(MergedName(matches[match_pos].assignment_name),
                                        matches[match_pos].deadline_file.df))
    /\ UNCHANGED <<pcS, deadline_dir, lifted_dir, adjustments_file, matches,
                   loaded_adjustments, all_audit_records, all_true_zero_records,
                   processed_assignments, exit_status>>
    /\ UNCHANGED <<lecture_files, masterVars, assignVars, lateVars, callVars,
                   activityVars, webVars>>
SkipPair ==
    /\ pcS = "pairs"
    /\ match_pos <= Len(matches)
    /\ ~PairResult.ok
    /\ match_pos' = match_pos + 1
    /\ UNCHANGED <<pcS, deadline_dir, lifted_dir, adjustments_file, matches,
                   loaded_adjustments, all_audit_records, all_true_zero_records,
                   processed_assignments, out_files, exit_status>>
    /\ UNCHANGED <<lecture_files, masterVars, assignVars, lateVars, callVars,
                   activityVars, webVars>>

\* run_score after the loop: the consolidated reports and the extracts
WriteReports ==
    /\ pcS = "pairs"
    /\ match_pos > Len(matches)
    /\ LET files1 == IF all_audit_records = <<>> THEN out_files
                     ELSE WriteFile(out_files, ReportFile(fAllLate, all_audit_records))
           files2 == WriteExtracts(files1, processed_assignments, all_audit_records, 1)
       IN out_files' = IF all_true_zero_records = <<>> THEN files2
                       ELSE WriteFile(files2, ReportFile(fAllTrueZeros,
                                                         all_true_zero_records))
    /\ pcS' = "done"
    /\ UNCHANGED <<deadline_dir, lifted_dir, adjustments_file, matches, match_pos,
                   loaded_adjustments, all_audit_records, all_true_zero_records,
                   processed_assignments, exit_status>>
    /\ UNCHANGED <<lecture_files, masterVars, assignVars, lateVars, callVars,
                   activityVars, webVars>>

NextScore ==
    \/ CheckInputs
    \/ ProcessPair
    \/ SkipPair
    \/ WriteReports

SpecScore == InitScore /\ [][NextScore]_vars

\* a run of either batch tool that skips the items it cannot process
InitBatch == InitAssignments \/ InitScore
NextBatch == NextAssignments \/ NextScore
SpecBatch == InitBatch /\ [][NextBatch]_vars

(***************************************************************************)
(* Activity reports (pyzy.activity), aggregate mode: several reports, one  *)
(* column.  Percents are in hundredths of a percent.                       *)
(***************************************************************************)
\* s.replace(sub, new)
RECURSIVE ReplaceAll(_, _, _)
ReplaceAll(s, sub, new) ==
    IF FirstAt(sub, s) = 0 THEN s
    ELSE SubSeq(s, 1, FirstAt(sub, s) - 1) \o new
         \o ReplaceAll(SubSeq(s, FirstAt(sub, s) + Len(sub), Len(s)), sub, new)

\* the characters of the names and emails in the order of their codes
CodeOrder == <<" ", ".">> \o DigitChars \o <<"@">> \o UpperChars \o <<"_">> \o LowerChars
Code(c) == CHOOSE i \in 1..Len(CodeOrder) : CodeOrder[i] = c
\* a < b for two texts
RECURSIVE StrLess(_, _)
StrLess(a, b) ==
    IF b = <<>> THEN FALSE
    ELSE IF a = <<>> THEN TRUE
    ELSE IF a[1] = b[1] THEN StrLess(Tail(a), Tail(b))
    ELSE Code(a[1]) < Code(b[1])

hEmail == <<"E","m","a","i","l">>
hClassSection == <<"C","l","a","s","s"," ","s","e","c","t","i","o","n">>
hDateOfSubmission == <<"D","a","t","e"," ","o","f"," ","s","u","b","m","i","s","s","i","o","n">>
hScore == <<"S","c","o","r","e">>
hMaxScore == <<"M","a","x"," ","s","c","o","r","e">>
hTestResults == <<"A","u","t","o","g","r","a","d","e","d"," ","t","e","s","t"," ","r","e","s","u","l","t","s">>
EXPECTED_COLUMNS ==
    <<hFirstname, hLastname, hEmail, hClassSection, hDateOfSubmission, hScore,
      hMaxScore, hTestResults>>

\* df.groupby('Email')['Score'].idxmax(): per email, the first row with
\* the highest score
BestIdx(df) ==
    {i \in 1..Len(df.rows) :
        /\ ~IsNa(df.rows[i][hEmail])
        /\ \A j \in 1..Len(df.rows) :
              df.rows[j][hEmail] = df.rows[i][hEmail] =>
                  \/ df.rows[j][hScore].v < df.rows[i][hScore].v
                  \/ df.rows[j][hScore].v = df.rows[i][hScore].v /\ i <= j}
\* the order of best: by last name, then first name; rows with the same
\* names stay in the order of their groups, which is that of the emails
BestBefore(df, i, j) ==
    LET last_i == Str(df.rows[i][hLastname])
        last_j == Str(df.rows[j][hLastname])
        first_i == Str(df.rows[i][hFirstname])
        first_j == Str(df.rows[j][hFirstname])
    IN \/ StrLess(last_i, last_j)
       \/ last_i = last_j /\ StrLess(first_i, first_j)
       \/ /\ last_i = last_j /\ first_i = first_j
          /\ StrLess(Str(df.rows[i][hEmail]), Str(df.rows[j][hEmail]))
RECURSIVE InBestOrder(_, _)
InBestOrder(df, idx) ==
    IF idx = {} THEN <<>>
    ELSE LET i == CHOOSE x \in idx : \A y \in idx \ {x} : BestBefore(df, x, y)
         IN <<i>> \o InBestOrder(df, idx \ {i})

\* (Score / Max score * 100).round(2): not a number for 0 / 0
Percent(score, max_score) ==
    IF max_score.v = 0 /\ score.v = 0 THEN NaN
    ELSE PyInt((2 * score.v * 10000 + max_score.v) \div (2 * max_score.v))

\* parse_activity_report: the rows of best, with Username and Percent
parse_activity_report(df) ==
    [k \in 1..Cardinality(BestIdx(df)) |->
        [Username |-> extract_username_from_email(
                          df.rows[InBestOrder(df, BestIdx(df))[k]][hEmail]),
         Percent |-> Percent(df.rows[InBestOrder(df, BestIdx(df))[k]][hScore],
                             df.rows[InBestOrder(df, BestIdx(df))[k]][hMaxScore])]]

\* max(a, b) of Python: b only if b > a, and no comparison with nan holds
PyMax(a, b) ==
    IF ~IsNa(a) /\ ~IsNa(b) /\ b.v > a.v THEN b ELSE a

\* one iteration of the loop over the rows of best
AggregateRow(comb, row) ==
    IF ~Truthy(row.Username) THEN comb
    ELSE IF row.Username.s \in DOMAIN comb
    THEN [comb EXCEPT ![row.Username.s] =
             [max_score |-> PyMax(@.max_score, row.Percent), count |-> @.count + 1]]
    ELSE (row.Username.s :> [max_score |-> row.Percent, count |-> 1]) @@ comb
\* the loop over the rows of best of one report, from row k on
RECURSIVE AggregateReport(_, _, _)
AggregateReport(comb, best, k) ==
    IF k > Len(best) THEN comb
    ELSE AggregateReport(AggregateRow(comb, best[k]), best, k + 1)
\* combined after the reports from position k on
RECURSIVE AggregateAll(_, _, _)
AggregateAll(comb, reports, k) ==
    IF k > Len(reports) THEN comb
    ELSE AggregateAll(AggregateReport(comb, parse_activity_report(reports[k].df), 1),
                      reports, k + 1)

\* the username of a gradebook row and the cell a map has for it, or None
BookUsername(df, row) ==
    LectureUsername(row, find_username_column(df), find_email_column(df))
\* apply_scores_to_gradebook and the count column of _run_aggregated
WithColumn(df, col) == IF col \in ColSet(df) THEN df ELSE AddColumn(df, col)
FillColumn(df, col, comb, field, n) ==
    [df EXCEPT !.rows =
        [i \in 1..Len(df.rows) |->
            IF /\ BookUsername(df, df.rows[i]) # None
               /\ Truthy(BookUsername(df, df.rows[i]))
               /\ BookUsername(df, df.rows[i]).s \in DOMAIN comb
            THEN [df.rows[i] EXCEPT ![col] =
                     IF field = "max_score" THEN comb[BookUsername(df, df.rows[i]).s].max_score
                     ELSE PyStr(IntToStr(comb[BookUsername(df, df.rows[i]).s].count)
                                \o <<"/">> \o IntToStr(n))]
            ELSE df.rows[i]]]
apply_scores_to_gradebook(df, comb, column_name) ==
    FillColumn(WithColumn(df, column_name), column_name, comb, "max_score", 0)
\* df[count_col] = '' and the loop that fills it
ClearColumn(df, col) ==
    [df EXCEPT !.rows = [i \in 1..Len(df.rows) |-> [df.rows[i] EXCEPT ![col] = sEmpty]]]
CountColumn(column_name) == column_name \o <<" ","S","u","b","m","i","t","t","e","d">>
WithCounts(df, comb, column_name, n) ==
    FillColumn(ClearColumn(WithColumn(df, CountColumn(column_name)), CountColumn(column_name)),
               CountColumn(column_name), comb, "count", n)
\* the columns whose header contains 'Unnamed' are dropped
DropUnnamed(df) ==
    Project(df, SelectSeq(df.cols, LAMBDA c : ~Contains(<<"U","n","n","a","m","e","d">>, c)))
\* the gradebook that _run_aggregated writes for a lecture file
AggregatedBook(file, comb, column_name, n) ==
    [name |-> ReplaceAll(file.name, <<".","c","s","v">>, <<"_","m","e","r","g","e","d",".","c","s","v">>),
     df |-> sort_assignment_columns(DropUnnamed(
                WithCounts(apply_scores_to_gradebook(file.df, comb, column_name),
                           comb, column_name, n)))]

\* the reports and gradebooks the runs are drawn from; every report has
\* the expected columns
MaxReports == 3
mAlice == <<"a","l","i","c","e","@","x",".","e","d","u">>
mBobUpper == <<"B","o","b","@","x",".","e","d","u">>
mBobLower == <<"b","o","b","@","x",".","e","d","u">>
Submission(first, last, mail, score, max_score) ==
    <<PyStr(first), PyStr(last), PyStr(mail), sEmpty, sEmpty, PyInt(score),
      PyInt(max_score), sEmpty>>
nAlice == <<"A","l","i","c","e">>
ReportFiles ==
    << [name |-> <<"a","c","t","1",".","c","s","v">>,
        df |-> MkTable(EXPECTED_COLUMNS,
                 << Submission(nAlice, nLee, mAlice, 5, 10),
                    Submission(nBob, nRay, mBobLower, 8, 10) >>)],
       [name |-> <<"a","c","t","2",".","c","s","v">>,
        df |-> MkTable(EXPECTED_COLUMNS,
                 << Submission(nAlice, nLee, mAlice, 5, 10),
                    Submission(nAlice, nLee, mAlice, 8, 10),
                    Submission(nBob, nRay, mBobUpper, 5, 10),
                    Submission(nBob, nRay, mBobLower, 10, 10) >>)],
       [name |-> <<"a","c","t","3",".","c","s","v">>,
        df |-> MkTable(EXPECTED_COLUMNS,
                 << Submission(nBob, nRay, mBobLower, 0, 0) >>)],
       [name |-> <<"a","c","t","4",".","c","s","v">>,
        df |-> MkTable(EXPECTED_COLUMNS,
                 << Submission(nAlice, nLee, mAlice, 10, 10) >>)] >>
\* the reports of a run: two or more different reports, in any order
ReportLists ==
    {s \in DistinctSeqs({ReportFiles[i] : i \in 1..Len(ReportFiles)}, MaxReports) :
        Len(s) >= 2}
Gradebooks ==
    { << [name |-> <<"s","e","c","A",".","c","s","v">>,
          df |-> MkTable(<<hStudentID, hUsername>>,
                         << <<PyInt(111), sAlice>>, <<PyInt(222), PyStr(<<" ","B","O","B"," ">>)>>,
                            <<PyInt(444), sDave>> >>)] >>,
      << [name |-> <<"s","e","c","A",".","c","s","v">>,
          df |-> MkTable(<<hStudentID, hUsername>>,
                         << <<PyInt(111), sAlice>>, <<PyInt(444), sDave>> >>)],
         [name |-> <<"s","e","c","B",".","c","s","v">>,
          df |-> MkTable(<<hStudentID, hSchoolEmail, hW2PA>>,
                         << <<PyInt(222), sBobMail, PyInt(70)>>,
                            <<PyInt(333), sCarolMail, PyInt(90)>> >>)] >> }

InitActivity ==
    /\ pcV = "start"
    /\ input_files \in ReportLists
    /\ lecture_files \in Gradebooks
    /\ column_names = <<hW1CA>>
    /\ report_pos = 0
    /\ combined = EmptyMap
    /\ book_pos = 0
    /\ activity_out = <<>>
    /\ pc = "idle"
    /\ master_file = EmptyTable
    /\ MasterLocals
    /\ pcA = "idle"
    /\ assignment_files = <<>>
    /\ AssignLocals
    /\ LateCallIdle
    /\ ScoreIdle
    /\ WebIdle

activityFrame == <<masterVars, assignVars, lateVars, callVars, scoreVars, webVars>>

\* run_activity up to the loop over the reports of _run_aggregated: one
\* column name for several reports selects the aggregate mode
StartAggregate ==
    /\ pcV = "start"
    /\ Len(column_names) = 1 /\ Len(input_files) > 1
    /\ combined' = EmptyMap
    /\ report_pos' = 1
    /\ pcV' = "reports"
    /\ UNCHANGED <<input_files, lecture_files, column_names, book_pos, activity_out>>
    /\ UNCHANGED activityFrame

\* an iteration of the loop over input_files
ReadReport ==
    /\ pcV = "reports"
    /\ report_pos <= Len(input_files)
    /\ combined' = AggregateReport(combined,
                                   parse_activity_report(input_files[report_pos].df), 1)
    /\ report_pos' = report_pos + 1
    /\ UNCHANGED <<pcV, input_files, lecture_files, column_names, book_pos, activity_out>>
    /\ UNCHANGED activityFrame

\* the maps are complete: the loop over the lecture files begins
BeginWriting ==
    /\ pcV = "reports"
    /\ report_pos > Len(input_files)
    /\ book_pos' = 1
    /\ pcV' = "gradebooks"
    /\ UNCHANGED <<input_files, lecture_files, column_names, report_pos, combined,
                   activity_out>>
    /\ UNCHANGED activityFrame

\* an iteration of the loop over lecture_files
WriteGradebook ==
    /\ pcV = "gradebooks"
    /\ book_pos <= Len(lecture_files)
    /\ activity_out' = WriteFile(activity_out,
                           TableFile(AggregatedBook(lecture_files[book_pos], combined,
                                                    column_names[1], Len(input_files)).name,
                                     AggregatedBook(lecture_files[book_pos], combined,
                                                    column_names[1], Len(input_files)).df))
    /\ book_pos' = book_pos + 1
    /\ UNCHANGED <<pcV, input_files, lecture_files, column_names, report_pos, combined>>
    /\ UNCHANGED activityFrame

FinishActivity ==
    /\ pcV = "gradebooks"
    /\ book_pos > Len(lecture_files)
    /\ pcV' = "done"
    /\ UNCHANGED <<input_files, lecture_files, column_names, report_pos, combined,
                   book_pos, activity_out>>
    /\ UNCHANGED activityFrame

NextActivity ==
    \/ StartAggregate
    \/ ReadReport
    \/ BeginWriting
    \/ WriteGradebook
    \/ FinishActivity

SpecActivity == InitActivity /\ [][NextActivity]_vars

(***************************************************************************)
(* The web front end (app_master.py): concurrent requests to /upload and   *)
(* /download/<filename>.  The merge is kept as what it reads: the merged   *)
(* table stands for the lecture and master contents it was computed from.  *)
(* File names of the forms are plain, so secure_filename leaves them as    *)
(* they are.                                                               *)
(***************************************************************************)
MaxRequests == 2
Requests == 1..MaxRequests

\* the forms: one lecture file and, or not, a master file; the contents
\* are those of the request that posts them
LectureUploadNames == {<<"s","e","c",".","c","s","v">>, <<"s","e","c","B",".","c","s","v">>}
Forms(r) ==
    {[lecture |-> <<[filename |-> n, body |-> [of |-> r, part |-> "lecture"]]>>,
      master |-> m] :
        n \in LectureUploadNames,
        m \in {None, [filename |-> <<"m","a","s","t","e","r",".","c","s","v">>, body |-> [of |-> r, part |-> "master"]]}}

\* os.path.join(UPLOAD_FOLDER, 'lecture_' + filename), 'master_' + filename
LecturePath(filename) == <<"l","e","c","t","u","r","e","_">> \o filename
MasterPath(filename) == <<"m","a","s","t","e","r","_">> \o filename
\* lecture_name.replace('.csv', '_merged.csv')
OutputName(lecture_name) == ReplaceAll(lecture_name, <<".","c","s","v">>, <<"_","m","e","r","g","e","d",".","c","s","v">>)
\* what merge_grades_from_master makes of the contents it has read
MergedBody(lecture_body, master_body) ==
    [part |-> "merged", lecture |-> lecture_body, master |-> master_body]

InitWeb ==
    /\ UPLOAD_FOLDER = EmptyMap
    /\ pcW = [r \in Requests |-> "start"]
    /\ uploads \in {u \in [Requests -> UNION {Forms(q) : q \in Requests}] :
                       \A r \in Requests : u[r] \in Forms(r)}
    /\ web_read = [r \in Requests |-> None]
    /\ response = [r \in Requests |-> None]
    /\ downloaded = [r \in Requests |-> None]
    /\ MergeIdle
    /\ LateCallIdle
    /\ ScoreIdle
    /\ ActivityIdle

webFrame == <<lecture_files, masterVars, assignVars, lateVars, callVars, scoreVars,
              activityVars>>

\* if not lecture_files or not master_file: 400
RejectForm(r) ==
    /\ pcW[r] = "start"
    /\ uploads[r].master = None
    /\ response' = [response EXCEPT ![r] = [status |-> 400, merged_files |-> <<>>]]
    /\ pcW' = [pcW EXCEPT ![r] = "done"]
    /\ UNCHANGED <<UPLOAD_FOLDER, uploads, web_read, downloaded>>
    /\ UNCHANGED webFrame

\* Clear previous uploads: every file of the folder is unlinked
ClearUploads(r) ==
    /\ pcW[r] = "start"
    /\ uploads[r].master # None
    /\ UPLOAD_FOLDER' = EmptyMap
    /\ pcW' = [pcW EXCEPT ![r] = "save_lectures"]
    /\ UNCHANGED <<uploads, web_read, response, downloaded>>
    /\ UNCHANGED webFrame

\* file.save(path): the file of that path is created or replaced
SaveAs(folder, path, body) ==
    [p \in DOMAIN folder \cup {path} |-> IF p = path THEN body ELSE folder[p]]

SaveLectures(r) ==
    /\ pcW[r] = "save_lectures"
    /\ UPLOAD_FOLDER' = SaveAs(UPLOAD_FOLDER, LecturePath(uploads[r].lecture[1].filename),
                               uploads[r].lecture[1].body)
    /\ pcW' = [pcW EXCEPT ![r] = "save_master"]
    /\ UNCHANGED <<uploads, web_read, response, downloaded>>
    /\ UNCHANGED webFrame

SaveMaster(r) ==
    /\ pcW[r] = "save_master"
    /\ UPLOAD_FOLDER' = SaveAs(UPLOAD_FOLDER, MasterPath(uploads[r].master.filename),
                               uploads[r].master.body)
    /\ pcW' = [pcW EXCEPT ![r] = "merge"]
    /\ UNCHANGED <<uploads, web_read, response, downloaded>>
    /\ UNCHANGED webFrame

\* merge_grades_from_master(lecture_paths, master_path) reads the files of
\* the paths; a path that is gone raises, and the handler answers 500
MergeUploads(r) ==
    /\ pcW[r] = "merge"
    /\ IF /\ LecturePath(uploads[r].lecture[1].filename) \in DOMAIN UPLOAD_FOLDER
          /\ MasterPath(uploads[r].master.filename) \in DOMAIN UPLOAD_FOLDER
       THEN /\ web_read' =
                  [web_read EXCEPT ![r] =
                      [lecture |-> UPLOAD_FOLDER[LecturePath(uploads[r].lecture[1].filename)],
                       master |-> UPLOAD_FOLDER[MasterPath(uploads[r].master.filename)]]]
            /\ pcW' = [pcW EXCEPT ![r] = "save_merged"]
            /\ UNCHANGED response
       ELSE /\ response' = [response EXCEPT ![r] = [status |-> 500, merged_files |-> <<>>]]
            /\ pcW' = [pcW EXCEPT ![r] = "done"]
            /\ UNCHANGED web_read
    /\ UNCHANGED <<UPLOAD_FOLDER, uploads, downloaded>>
    /\ UNCHANGED webFrame

\* Save merged files, and the response that lists them
SaveMerged(r) ==
    /\ pcW[r] = "save_merged"
    /\ UPLOAD_FOLDER' =
          SaveAs(UPLOAD_FOLDER, OutputName(LecturePath(uploads[r].lecture[1].filename)),
                 MergedBody(web_read[r].lecture, web_read[r].master))
    /\ response' =
          [response EXCEPT ![r] =
              [status |-> 200,
               merged_files |-> <<OutputName(LecturePath(uploads[r].lecture[1].filename))>>]]
    /\ pcW' = [pcW EXCEPT ![r] = "done"]
    /\ UNCHANGED <<uploads, web_read, downloaded>>
    /\ UNCHANGED webFrame

\* download_file(filename) for the merged file that the response of the
\* request lists
DownloadMerged(r) ==
    /\ pcW[r] = "done"
    /\ response[r].status = 200
    /\ downloaded[r] = None
    /\ downloaded' =
          [downloaded EXCEPT ![r] =
              IF response[r].merged_files[1] \in DOMAIN UPLOAD_FOLDER
              THEN [status |-> 200, body |-> UPLOAD_FOLDER[response[r].merged_files[1]]]
              ELSE [status |-> 404, body |-> None]]
    /\ UNCHANGED <<UPLOAD_FOLDER, pcW, uploads, web_read, response>>
    /\ UNCHANGED webFrame

NextWeb ==
    \E r \in Requests :
        \/ RejectForm(r)
        \/ ClearUploads(r)
        \/ SaveLectures(r)
        \/ SaveMaster(r)
        \/ MergeUploads(r)
        \/ SaveMerged(r)
        \/ DownloadMerged(r)

SpecWeb == InitWeb /\ [][NextWeb]_vars

(***************************************************************************)
(* Properties of merge_grades_from_master.                                 *)
(***************************************************************************)
\* the lecture table l and the master row m as they were supplied
InputLecture(l) == lecture_files[l].df
SourceRow(m) == master_file.rows[m]
SourceId(m) ==
    IF master_id_col = None THEN None
    ELSE normalize_student_id(SourceRow(m)[master_id_col.s])
SourceUsername(m) ==
    IF master_email_col = None THEN None
    ELSE extract_username_from_email(SourceRow(m)[master_email_col.s])
\* the normalized id of row j of the supplied lecture table l, None if the
\* table has no id column or the cell is empty
DestId(l, j) ==
    LET c == find_student_id_column(InputLecture(l))
    IN IF c = None THEN None ELSE normalize_student_id(InputLecture(l).rows[j][c.s])
\* the rows of lecture table l that carry the id, resp. the username, of
\* master row m
IdCarriers(l, m) ==
    LET c == find_student_id_column(InputLecture(l))
        id == SourceId(m)
    IN IF c = None \/ id = None THEN {}
       ELSE {j \in 1..Len(InputLecture(l).rows) :
                normalize_student_id(InputLecture(l).rows[j][c.s]) = id}
UsernameCarriers(l, m) ==
    LET c == find_username_column(InputLecture(l))
        u == SourceUsername(m)
    IN IF c = None \/ u = None \/ u = PyStr(<<>>) THEN {}
       ELSE {j \in 1..Len(InputLecture(l).rows) :
                /\ ~IsNa(InputLecture(l).rows[j][c.s])
                /\ Lower(Strip(Str(InputLecture(l).rows[j][c.s]))) = u.s}
\* the (lecture, master row) pairs whose RowProcessing step has been taken
ProcessedLectures ==
    {l \in 1..Len(lecture_data) :
        /\ l < li \/ (l = li /\ pc = "rows")
        /\ \/ find_student_id_column(InputLecture(l)) # None
           \/ find_username_column(InputLecture(l)) # None}
Processed ==
    {p \in ProcessedLectures \X (1..Len(master_df.rows)) : p[1] < li \/ p[2] < mi}
MatchesOf(l, m) == {k \in 1..Len(matchLog) : matchLog[k].lec = l /\ matchLog[k].mrow = m}
WritesOf(l, m) == {k \in 1..Len(writeLog) : writeLog[k].lec = l /\ writeLog[k].mrow = m}

\* C1: a source row whose normalized id is carried by a row of the
\* destination table is matched to such a row by method 'id' and all its
\* grades are written to that row, whatever its username matches; a match
\* by username happens only when no destination row carries the id.
IdMatchTakesPriority ==
    \A p \in Processed :
        LET l == p[1]
            m == p[2]
            ids == IdCarriers(l, m)
        IN /\ ids # {} =>
                /\ MatchesOf(l, m) # {}
                /\ \A k \in MatchesOf(l, m) :
                      matchLog[k].method = "id" /\ matchLog[k].drow \in ids
                /\ \A k \in WritesOf(l, m) : writeLog[k].drow \in ids
           /\ \A k \in MatchesOf(l, m) :
                 matchLog[k].method = "email" => ids = {}

\* C1 witness: a row matched by id, with a grade written, whose username
\* is the username of a different destination row
IdWinsOverUsernameReached ==
    \E k \in 1..Len(matchLog) :
        /\ matchLog[k].method = "id"
        /\ WritesOf(matchLog[k].lec, matchLog[k].mrow) # {}
        /\ UsernameCarriers(matchLog[k].lec, matchLog[k].mrow) # {}
        /\ matchLog[k].drow \notin UsernameCarriers(matchLog[k].lec, matchLog[k].mrow)

\* the last match of master row m by username, as a position of matchLog
LastFallback(m) ==
    MaxOf({k \in 1..Len(matchLog) : matchLog[k].mrow = m /\ matchLog[k].method = "email"})
\* the master columns of row m whose cell is transferred: gradeable headers
\* that are not identification columns, holding a value
FilledCells(m) ==
    {c \in ColSet(master_file) :
        /\ ~IsIdentificationCol(c)
        /\ is_gradeable_assignment(c)
        /\ ~IsNa(SourceRow(m)[c])
        /\ SourceRow(m)[c] # PyStr(<<>>)}
MismatchEntries(m) ==
    {i \in 1..Len(failed_id_match_details) : failed_id_match_details[i].key = m}

IdMismatchOnlyOnDisagreement ==
    \A i \in 1..Len(failed_id_match_details) :
        LET m == failed_id_match_details[i].key
            rec == failed_id_match_details[i].val
        IN /\ SourceId(m) # None
           /\ rec.apparent_id = SourceId(m)
           /\ \E k \in 1..Len(matchLog) :
                 /\ matchLog[k].mrow = m
                 /\ matchLog[k].method = "email"
                 /\ DestId(matchLog[k].lec, matchLog[k].drow) # None
                 /\ rec.matched_id = DestId(matchLog[k].lec, matchLog[k].drow)
                 /\ rec.matched_id # rec.apparent_id

\* the student key of master row m
StudentKey(m) ==
    PyOr(PyOr(SourceId(m), SourceUsername(m)), PyStr(<<"u","n","k","n","o","w","n">>))
OrphanIndices == {results.orphaned_rows.rows[i].idx : i \in 1..Len(results.orphaned_rows.rows)}

\* C4: after the run every student key of the source table is in exactly one
\* of matched_students and students_not_found, and the rows of a key in
\* students_not_found are all in orphaned_rows.
StudentKeyPartition ==
    pc = "done" =>
        \A m \in 1..Len(master_file.rows) :
            /\ (StudentKey(m) \in results.matched_students)
                  # (StudentKey(m) \in results.students_not_found)
            /\ StudentKey(m) \in results.students_not_found =>
                  \A n \in 1..Len(master_file.rows) :
                      StudentKey(n) = StudentKey(m) => n \in OrphanIndices

\* C5: the orphaned-rows report is empty until the last destination table
\* has been processed and then holds, in order and with every column and
\* value, exactly the source rows that matched no row of any destination.
OrphansDecidedAcrossTables ==
    /\ pc # "done" => results.orphaned_rows = <<>>
    /\ pc = "done" =>
          /\ results.orphaned_rows.cols = master_file.cols
          /\ \A m \in 1..Len(master_file.rows) :
                m \in OrphanIndices <=>
                    ~\E k \in 1..Len(matchLog) : matchLog[k].mrow = m
          /\ \A i \in 1..Len(results.orphaned_rows.rows) :
                /\ results.orphaned_rows.rows[i].row =
                      master_file.rows[results.orphaned_rows.rows[i].idx]
                /\ \A j \in 1..Len(results.orphaned_rows.rows) :
                      i < j => results.orphaned_rows.rows[i].idx
                                  < results.orphaned_rows.rows[j].idx

\* C5 witness: two destination tables were processed, one source row matched
\* in only one of them and is not orphaned, another matched in none and is
OrphanAndSingleSectionMatchReached ==
    /\ pc = "done"
    /\ \E m \in 1..Len(master_file.rows) :
          /\ m \notin OrphanIndices
          /\ Cardinality({matchLog[k].lec : k \in {j \in 1..Len(matchLog) : matchLog[j].mrow = m}}) = 1
          /\ Cardinality({p[1] : p \in {q \in Processed : q[2] = m}}) = 2
    /\ \E m \in 1..Len(master_file.rows) :
          /\ m \in OrphanIndices
          /\ results.orphaned_rows.rows[1].row = master_file.rows[m]

\* the merged table returned for lecture file l, if there is one
HasOutput(l) == lecture_files[l].name \in DOMAIN results.updated_dataframes
OutputOf(l) == results.updated_dataframes[lecture_files[l].name]
WritesTo(l, i, c) ==
    {k \in 1..Len(writeLog) :
        writeLog[k].lec = l /\ writeLog[k].drow = i /\ writeLog[k].col = c}

\* the positions of assignLog that wrote cell (i, c) of lecture table l
AssignWritesTo(l, i, c) ==
    {k \in 1..Len(assignLog) :
        assignLog[k].lec = l /\ assignLog[k].drow = i /\ assignLog[k].col = c}
\* the names under which the usable assignment files are merged
MergedNames ==
    {parse_assignment_filename(assignment_files[a].name).s :
        a \in {b \in 1..Len(assignment_files) : UsableAssignment(assignment_files[b])}}

\* C6: every grade is written to a destination column that is itself an
\* assignment column or was newly created for the assignment.
WritesOnlyToAssignmentColumns ==
    \A k \in 1..Len(writeLog) :
        writeLog[k].created \/ is_gradeable_assignment(writeLog[k].col)

\* C7: every merged table has the rows of its destination input, in the
\* same number and order, and every column the input had, without
\* duplicates; its other columns were appended by the merge, and a cell of
\* an input column that no grade was written to keeps its value.  This
\* holds for the tables of merge_grades_from_master and for those of
\* merge_grades_from_assignments.
MergedTableKeepsRowsAndColumns ==
    \A l \in 1..Len(lecture_files) :
      /\ pcA = "done" =>
            /\ lecture_files[l].name \in DOMAIN merge_results.updated_dataframes
            /\ Len(merge_results.updated_dataframes[lecture_files[l].name].rows)
                  = Len(InputLecture(l).rows)
            /\ ColSet(InputLecture(l))
                  \subseteq ColSet(merge_results.updated_dataframes[lecture_files[l].name])
            /\ Cardinality(ColSet(merge_results.updated_dataframes[lecture_files[l].name]))
                  = Len(merge_results.updated_dataframes[lecture_files[l].name].cols)
            /\ ColSet(merge_results.updated_dataframes[lecture_files[l].name])
                  \ ColSet(InputLecture(l)) \subseteq MergedNames
            /\ \A i \in 1..Len(InputLecture(l).rows) :
                  /\ DOMAIN merge_results.updated_dataframes[lecture_files[l].name].rows[i]
                        = ColSet(merge_results.updated_dataframes[lecture_files[l].name])
                  /\ \A c \in ColSet(InputLecture(l)) :
                        AssignWritesTo(l, i, c) = {} =>
                            merge_results.updated_dataframes[lecture_files[l].name].rows[i][c]
                                = InputLecture(l).rows[i][c]
      /\ HasOutput(l) =>
            /\ Len(OutputOf(l).rows) = Len(InputLecture(l).rows)
            /\ ColSet(InputLecture(l)) \subseteq ColSet(OutputOf(l))
            /\ Cardinality(ColSet(OutputOf(l))) = Len(OutputOf(l).cols)
            /\ \A c \in ColSet(OutputOf(l)) \ ColSet(InputLecture(l)) :
                  \E k \in 1..Len(writeLog) :
                      writeLog[k].lec = l /\ writeLog[k].col = c /\ writeLog[k].created
            /\ \A i \in 1..Len(InputLecture(l).rows) :
                  /\ DOMAIN OutputOf(l).rows[i] = ColSet(OutputOf(l))
                  /\ \A c \in ColSet(InputLecture(l)) :
                        WritesTo(l, i, c) = {} =>
                            OutputOf(l).rows[i][c] = InputLecture(l).rows[i][c]

\* C7 witness: a merged table with an appended column, returned in an order
\* that differs from the order of insertion
MergedTableGainedColumnReached ==
    \E l \in 1..Len(lecture_files) :
        /\ HasOutput(l)
        /\ Len(OutputOf(l).cols) > Len(InputLecture(l).cols)
        /\ OutputOf(l).cols # lecture_data[l].df.cols

\* C8: the result holds one merged table for every lecture file supplied.
OneMergedTablePerLecture ==
    pc = "done" =>
        DOMAIN results.updated_dataframes =
            {lecture_files[l].name : l \in 1..Len(lecture_files)}

\* C9: a destination cell that was written holds the value of the last
\* write in processing order, in the table being merged and in the merged
\* table returned; the run ends normally.  Processing order is the order of
\* the master rows in merge_grades_from_master and the order of the
\* assignment files, then of their rows, in merge_grades_from_assignments.
LastWriterWins ==
    /\ \A j, k \in 1..Len(assignLog) :
          (j < k /\ assignLog[j].lec = assignLog[k].lec) =>
              \/ assignLog[j].file < assignLog[k].file
              \/ assignLog[j].file = assignLog[k].file /\ assignLog[j].arow < assignLog[k].arow
    /\ \A l \in 1..Len(lecture_dfs) :
          \A i \in 1..Len(lecture_dfs[l].df.rows) :
              \A c \in ColSet(lecture_dfs[l].df) :
                  AssignWritesTo(l, i, c) # {} =>
                      /\ lecture_dfs[l].df.rows[i][c] =
                            assignLog[MaxOf(AssignWritesTo(l, i, c))].value
                      /\ pcA = "done" =>
                            merge_results.updated_dataframes[lecture_files[l].name].rows[i][c]
                                = assignLog[MaxOf(AssignWritesTo(l, i, c))].value
    /\ \A l \in 1..Len(lecture_data) :
          \A i \in 1..Len(lecture_data[l].df.rows) :
              \A c \in ColSet(lecture_data[l].df) :
                  WritesTo(l, i, c) # {} =>
                      /\ lecture_data[l].df.rows[i][c] =
                            writeLog[MaxOf(WritesTo(l, i, c))].value
                      /\ HasOutput(l) =>
                            OutputOf(l).rows[i][c] =
                                writeLog[MaxOf(WritesTo(l, i, c))].value
    /\ writeLog # <<>> => pc # "raised"

\* C9 witness: the run is over and some cell was written from two
\* assignment files with two different values, after two rows of the
\* first file had written it
CellOverwrittenReached ==
    /\ pcA = "done"
    /\ \E h, j, k \in 1..Len(assignLog) :
          /\ h < j /\ j < k
          /\ assignLog[h].file = assignLog[j].file
          /\ assignLog[j].file < assignLog[k].file
          /\ assignLog[h].lec = assignLog[k].lec /\ assignLog[j].lec = assignLog[k].lec
          /\ assignLog[h].drow = assignLog[k].drow /\ assignLog[j].drow = assignLog[k].drow
          /\ assignLog[h].value # assignLog[j].value
          /\ assignLog[j].value # assignLog[k].value

\* C10: a null or empty source cell changes nothing: every write carries the
\* non-empty value of its source cell, gradesUpdated counts exactly the
\* writes, every column added to a destination table received a write, and a
\* destination cell without a write keeps its prior value.
EmptySourceCellChangesNothing ==
    /\ \A k \in 1..Len(writeLog) :
          /\ writeLog[k].value = SourceRow(writeLog[k].mrow)[writeLog[k].mcol]
          /\ ~IsNa(writeLog[k].value)
          /\ writeLog[k].value # PyStr(<<>>)
    /\ \A k \in 1..Len(matchLog) :
          Cardinality(WritesOf(matchLog[k].lec, matchLog[k].mrow))
              = Cardinality(FilledCells(matchLog[k].mrow))
    /\ pc = "rows" =>
          grades_updated = Cardinality({k \in 1..Len(writeLog) : writeLog[k].lec = li})
    /\ \A l \in 1..Len(lecture_data) :
          /\ HasOutput(l) =>
                /\ OutputOf(l).rows = lecture_data[l].df.rows
                /\ results.stats[lecture_files[l].name].grades_updated =
                      Cardinality({k \in 1..Len(writeLog) : writeLog[k].lec = l})
                /\ results.stats[lecture_files[l].name].columns_added =
                      Cardinality(ColSet(OutputOf(l)) \ ColSet(InputLecture(l)))
          /\ \A c \in ColSet(lecture_data[l].df) :
                /\ c \notin ColSet(InputLecture(l)) =>
                      \E k \in 1..Len(writeLog) : writeLog[k].lec = l /\ writeLog[k].col = c
                /\ \A i \in 1..Len(lecture_data[l].df.rows) :
                      WritesTo(l, i, c) = {} =>
                          lecture_data[l].df.rows[i][c] =
                              IF c \in ColSet(InputLecture(l))
                              THEN InputLecture(l).rows[i][c]
                              ELSE PyStr(<<>>)

\* C10 witness: a matched source row with an assignment cell that is empty,
\* in a destination table that got no column and no write from that row
EmptyCellOfMatchedRowReached ==
    \E k \in 1..Len(matchLog) :
        /\ pc = "done"
        /\ \E c \in ColSet(master_file) :
              /\ is_gradeable_assignment(c)
              /\ IsNa(SourceRow(matchLog[k].mrow)[c])
        /\ WritesOf(matchLog[k].lec, matchLog[k].mrow) = {}
        /\ HasOutput(matchLog[k].lec)
        /\ ColSet(OutputOf(matchLog[k].lec)) = ColSet(InputLecture(matchLog[k].lec))
        /\ results.stats[lecture_files[matchLog[k].lec].name].grades_updated = 0


(***************************************************************************)
(* Properties of late_score.                                               *)
(***************************************************************************)
\* the week, the assignment type and the student of the row of the call
RowWeek == Split(late_row["Assignment"])[1]
RowAssn == Split(late_row["Assignment"])[2]
RowStudent == late_row["First Name"] \o <<" ">> \o late_row["Last Name"]
\* the rule at position k is for the week of the row, and its student and
\* assignment fields, where present, are those of the row
StructurallyMatches(k) ==
    LET adj == adjustments[k]
    IN /\ <<"W">> \o IntToStr(adj["week"]) = RowWeek
       /\ "student" \in DOMAIN adj => adj["student"] = RowStudent
       /\ "assignment" \in DOMAIN adj => adj["assignment"] = RowAssn
StructuralMatches == {k \in 1..Len(adjustments) : StructurallyMatches(k)}
\* the penalty entries of the rule at position k that the row qualifies for
QualifyingEntries(k) ==
    LET penalty == DictGet(adjustments[k], "penalty")
    IN IF penalty = None THEN {}
       ELSE {e \in 1..Len(penalty.v) :
                /\ "days-late" \in DOMAIN penalty.v[e]
                /\ late_row["Days Late"] <= penalty.v[e]["days-late"]}
\* the row's score less the deduction of entry e of the rule at position k
DeductedBy(k, e) ==
    ((100 - adjustments[k]["penalty"].v[e]["frac-deduction"])
        * late_row["After Score"]) \div 100

\* C11: the first rule in file order that structurally matches the row
\* alone determines the result: no rule after it is consulted, and the
\* returned pair is the one that rule yields (the unpenalized score,
\* unmatched, when it yields none).
FirstMatchingRuleDecides ==
    (pcL \in {"loop", "done"} /\ StructuralMatches # {}) =>
        LET first == MinOf(StructuralMatches)
        IN /\ adj_pos <= first
           /\ pcL = "done" =>
                 /\ late_ret.info.matched => adj_pos = first
                 /\ ~late_ret.info.matched =>
                        late_ret.score = late_row["After Score"]

\* C12: a week-wide rule (no student, no assignment) with a penalty list
\* applies score * (1 - fracDeduction) of the first entry the row qualifies
\* for to every row of that week, as the three more specific shapes do.
EveryShapeAppliesItsPenaltyList ==
    (pcL = "done" /\ StructuralMatches # {}) =>
        LET first == MinOf(StructuralMatches)
        IN QualifyingEntries(first) # {} =>
              /\ late_ret.info.matched
              /\ late_ret.score = DeductedBy(first, MinOf(QualifyingEntries(first)))

WaiverShortCircuits ==
    (/\ pcL \in {"loop", "done"}
     /\ StructuralMatches # {}
     /\ DictGet(adjustments[MinOf(StructuralMatches)], "penalty") = None) =>
        /\ adj_pos <= MinOf(StructuralMatches)
        /\ pcL = "done" =>
              /\ late_ret.score = late_row["After Score"]
              /\ late_ret.info.matched
              /\ late_ret.info.frac_deduction = 0
\* a waiver has returned although a later rule of the list would have
\* deducted from the row's score
WaiverShortCircuitsReached ==
    /\ pcL = "done"
    /\ StructuralMatches # {}
    /\ MinOf(StructuralMatches) < Len(adjustments)
    /\ DictGet(adjustments[MinOf(StructuralMatches)], "penalty") = None
    /\ QualifyingEntries(Len(adjustments)) # {}
    /\ StructurallyMatches(Len(adjustments))
    /\ late_ret.score = late_row["After Score"]

(***************************************************************************)
(* Properties of the single calls.                                         *)
(***************************************************************************)
Called(fn) == call # None /\ call.fn = fn
Returned(fn) == Called(fn) /\ ret # None
\* the column is one the ordering treats as an assignment column
Typed(c) == AbbrevMatch(Strip(c)).ok
\* the week number and the type rank the column stands for: those of its
\* sort key, and rank 99 behind the week of a "Week N ..." header
ShapedKey(c) ==
    IF Typed(c) THEN SortKey(c)
    ELSE LET t == Strip(c)
             sp1 == RunLen(t, 5, SpaceSet)
             dg == RunLen(t, 5 + sp1, DigitSet)
         IN <<StrToInt(SubSeq(t, 5 + sp1, 4 + sp1 + dg)), 99>>
SameMembers(a, b) == {a[i] : i \in 1..Len(a)} = {b[i] : i \in 1..Len(b)}

\* C15: sort_assignment_columns is idempotent: ordering an already ordered
\* column sequence returns that same sequence.
SortIsIdempotent ==
    (Returned("sort_assignment_columns") /\ call.round = 2) =>
        /\ ret.df = call.df
        /\ ret.df2 = call.df2
\* an ordered table that holds two headers of one week and type behind a
\* non-assignment column has been ordered again
SortIsIdempotentReached ==
    /\ Returned("sort_assignment_columns")
    /\ call.round = 2
    /\ Len(call.df.cols) = 3
    /\ ~Typed(call.df.cols[1])
    /\ {call.df.cols[2], call.df.cols[3]} = {hW1PA, hW1PAMeta}
    /\ ret.df = call.df

\* C16: the ordered sequence is the non-assignment columns in their
\* original relative order followed by the assignment columns by (week,
\* type rank); an assignment-shaped column of unrecognized type stands in
\* the assignment part with rank 99, not among the non-assignment columns.
ShapedColumnsAreOrderedLast ==
    (Returned("sort_assignment_columns") /\ call.round = 1) =>
        LET plain == SelectSeq(call.df.cols, LAMBDA c : ~is_gradeable_assignment(c))
            out == ret.df.cols
        IN /\ SameMembers(out, call.df.cols)
           /\ Len(out) = Len(call.df.cols)
           /\ SubSeq(out, 1, Len(plain)) = plain
           /\ \A i, j \in (Len(plain) + 1)..Len(out) :
                 i < j => KeyLeq(ShapedKey(out[i]), ShapedKey(out[j]))

\* C17: the ordering depends only on the final set of columns: two tables
\* with the same column names and the same relative order of their
\* non-assignment columns are given the same column sequence, whatever the
\* order their assignment columns were inserted in.
OrderIgnoresInsertionOrder ==
    (/\ Returned("sort_assignment_columns")
     /\ SameMembers(call.df.cols, call.df2.cols)
     /\ SelectSeq(call.df.cols, LAMBDA c : ~Typed(c))
          = SelectSeq(call.df2.cols, LAMBDA c : ~Typed(c))) =>
        ret.df.cols = ret.df2.cols

EndToEndInputs ==
    /\ lecture_files \in EndToEndLectureLists
    /\ master_file \in EndToEndMasters
\* the position of a section among the lecture files, and of the master
\* row that carries an id
SectionAt(df) == CHOOSE l \in 1..Len(lecture_files) : lecture_files[l].df = df
MasterRowOf(id) ==
    CHOOSE m \in 1..Len(master_file.rows) : master_file.rows[m][hStudentID] = id

\* C20: a master export with the columns Student ID, School email and
\* 'Week 1 Participation Activities (10)' is merged into two sections; one
\* row matches the first section by id, one the second by username only,
\* one neither.  Both merged tables gain the column 'W1 PA' holding the
\* matched student's score, and the orphaned-rows report is exactly the
\* unmatched row with all its original columns.
EndToEndMerge ==
    (pc = "done" /\ EndToEndInputs) =>
        LET a == SectionAt(SectionA)
            b == SectionAt(SectionB)
            mA == MasterRowOf(PyInt(111))
            mB == MasterRowOf(PyInt(999))
            mO == MasterRowOf(PyInt(555))
            matchesOfRow(m) == {matchLog[k] : k \in {j \in 1..Len(matchLog) : matchLog[j].mrow = m}}
        IN /\ matchesOfRow(mA) = {[lec |-> a, mrow |-> mA, drow |-> 1, method |-> "id"]}
           /\ matchesOfRow(mB) = {[lec |-> b, mrow |-> mB, drow |-> 1, method |-> "email"]}
           /\ matchesOfRow(mO) = {}
           /\ OutputOf(a).cols = <<hStudentID, hUsername, hW1PA>>
           /\ OutputOf(b).cols = <<hStudentID, hUsername, hW1PA>>
           /\ OutputOf(a).rows[1][hW1PA] = master_file.rows[mA][hWeek1PA]
           /\ OutputOf(a).rows[2][hW1PA] = sEmpty
           /\ OutputOf(b).rows[1][hW1PA] = master_file.rows[mB][hWeek1PA]
           /\ results.orphaned_rows =
                 [cols |-> EndToEndCols,
                  rows |-> <<[idx |-> mO, row |-> master_file.rows[mO]]>>]
\* the merge of the three-student export has finished, the unmatched row
\* standing between the two matched ones
EndToEndMergeReached ==
    /\ pc = "done"
    /\ EndToEndInputs
    /\ MasterRowOf(PyInt(555)) = 2
    /\ Len(results.orphaned_rows.rows) = 1
    /\ hW1PA \in ColSet(OutputOf(1))
    /\ hW1PA \in ColSet(OutputOf(2))


(***************************************************************************)
(* Properties of the deadline-lift merge.                                  *)
(***************************************************************************)
\* a before-file row and an after-file row of the same student: the same
\* id, or the same username
SameStudent(before_row, after_row) ==
    \/ /\ ~IsNa(before_row[hStudentID])
       /\ normalize_student_id(before_row[hStudentID])
              = normalize_student_id(after_row[hStudentID])
    \/ /\ extract_username_from_email(before_row[hSchoolEmail]) # sEmpty
       /\ extract_username_from_email(before_row[hSchoolEmail])
              = extract_username_from_email(after_row[hSchoolEmail])
MatchedInAfter(before_df, after_df, i) ==
    \E j \in 1..Len(after_df.rows) : SameStudent(before_df.rows[i], after_df.rows[j])
\* the pair of a processed assignment
PairNamed(assignment) ==
    matches[CHOOSE k \in 1..Len(matches) : matches[k].assignment_name = assignment]
\* the positions of the records of a list that come from row i of the
\* before file of the assignment
RecordsFrom(records, assignment, i) ==
    {r \in 1..Len(records) : /\ records[r]["Assignment"] = PyStr(assignment)
                             /\ records[r]["src_row"] = PyInt(i)}
ProcessedSet == {processed_assignments[k] : k \in 1..Len(processed_assignments)}
PairsExist ==
    \E i \in 1..Len(deadline_dir.files), j \in 1..Len(lifted_dir.files) :
        normalize_assignment_name(deadline_dir.files[i].name)
            = normalize_assignment_name(lifted_dir.files[j].name)
AdjustmentsMissing == adjustments_file # None /\ ~adjustments_file.exists

\* C22: a run in which no file pair matches, or whose adjustments file is
\* named but missing, ends with status 1 and never writes a file
FatalErrorsWriteNothing ==
    (pcS # "idle" /\ (~PairsExist \/ AdjustmentsMissing)) =>
        /\ out_files = <<>>
        /\ pcS # "start" => (pcS = "exit" /\ exit_status = PyInt(1))
FatalErrorsWriteNothingReached ==
    /\ pcS = "exit" /\ exit_status = PyInt(1)
    /\ PairsExist /\ AdjustmentsMissing

\* C23: every audit record is of a late match whose score changed, and no
\* row has two
AuditRowsAreLateMatches ==
    \A r \in 1..Len(all_audit_records) :
        /\ all_audit_records[r]["Days Late"] > 0
        /\ all_audit_records[r]["After Score"] # all_audit_records[r]["Before Score"]
        /\ \A q \in 1..Len(all_audit_records) :
              (/\ all_audit_records[q]["Assignment"] = all_audit_records[r]["Assignment"]
               /\ all_audit_records[q]["src_row"] = all_audit_records[r]["src_row"]) => q = r

\* C24: every matched row of a processed pair has exactly one record, in
\* the true-zero list iff both its scores are 0, and then its row of the
\* merged table is the row of the before file
TrueZeroPartition ==
    \A assignment \in ProcessedSet :
        LET before_df == PairNamed(assignment).deadline_file.df
            after_df == PairNamed(assignment).lifted_file.df
            merged == FileNamed(out_files, MergedName(assignment)).df
        IN \A i \in 1..Len(before_df.rows) :
              MatchedInAfter(before_df, after_df, i) =>
                  LET tz == Cardinality(RecordsFrom(all_true_zero_records, assignment, i))
                      au == Cardinality(RecordsFrom(all_audit_records, assignment, i))
                      bothZero ==
                          /\ before_df.rows[i][hPercentScore] = PyInt(0)
                          /\ \A j \in 1..Len(after_df.rows) :
                                SameStudent(before_df.rows[i], after_df.rows[j])
                                    => after_df.rows[j][hPercentScore] = PyInt(0)
                  IN /\ tz + au = 1
                     /\ (tz = 1) <=> bothZero
                     /\ (tz = 1) => merged.rows[i] = before_df.rows[i]
TrueZeroPartitionReached ==
    /\ pcS = "done"
    /\ all_true_zero_records # <<>>
    /\ all_audit_records # <<>>
    /\ \E r \in 1..Len(all_audit_records) :
          all_audit_records[r]["Before Score"] = PyInt(0)

\* C27: a row of the before file that no after-file row matches is in the
\* merged table as it was, and in neither record list
UnmatchedRowsAreCarried ==
    \A assignment \in ProcessedSet :
        LET before_df == PairNamed(assignment).deadline_file.df
            after_df == PairNamed(assignment).lifted_file.df
            merged == FileNamed(out_files, MergedName(assignment)).df
        IN \A i \in 1..Len(before_df.rows) :
              ~MatchedInAfter(before_df, after_df, i) =>
                  /\ merged.rows[i] = before_df.rows[i]
                  /\ RecordsFrom(all_true_zero_records, assignment, i) = {}
                  /\ RecordsFrom(all_audit_records, assignment, i) = {}
UnmatchedRowsAreCarriedReached ==
    /\ pcS = "done"
    /\ \E assignment \in ProcessedSet :
          \E i \in 1..Len(PairNamed(assignment).deadline_file.df.rows) :
              /\ ~MatchedInAfter(PairNamed(assignment).deadline_file.df,
                                 PairNamed(assignment).lifted_file.df, i)
              /\ PairNamed(assignment).deadline_file.df.rows[i][hPercentScore] = PyInt(0)
              /\ \E r \in 1..Len(all_true_zero_records) :
                    all_true_zero_records[r]["Assignment"] = PyStr(assignment)

\* C28: a matched row whose Days Late is 0 or less has the after score as
\* its applied score, in the record and in the merged table
NotLateIsNotPenalised ==
    \A r \in 1..Len(all_audit_records) :
        all_audit_records[r]["Days Late"] <= 0 =>
            /\ all_audit_records[r]["Applied Score"] = all_audit_records[r]["After Score"]
            /\ FileNamed(out_files,
                         MergedName(all_audit_records[r]["Assignment"].s)).df
                   .rows[all_audit_records[r]["src_row"].v][hPercentScore]
                       = all_audit_records[r]["After Score"]
\* the outcome of the merge of the pair at position k of matches
PairOutcome(k) ==
    merge_single_assignment(matches[k].deadline_file, matches[k].lifted_file,
                            matches[k].assignment_name, loaded_adjustments)
\* the records (of one of the two lists) and the names of the first k
\* pairs, those whose merge raises left out
RECURSIVE RecordsOfSound(_, _)
RecordsOfSound(k, list) ==
    IF k = 0 THEN <<>>
    ELSE RecordsOfSound(k - 1, list)
         \o (IF PairOutcome(k).ok THEN PairOutcome(k)[list] ELSE <<>>)
RECURSIVE NamesOfSound(_)
NamesOfSound(k) ==
    IF k = 0 THEN <<>>
    ELSE NamesOfSound(k - 1)
         \o (IF PairOutcome(k).ok THEN <<matches[k].assignment_name>> ELSE <<>>)
FilesOf(assignment) ==
    {i \in 1..Len(out_files) :
        out_files[i].name \in {MergedName(assignment), ScoredName(assignment),
                               BBLearnName(assignment)}}
ColumnsOfUsableFiles ==
    {parse_assignment_filename(assignment_files[f].name).s :
        f \in {g \in 1..Len(assignment_files) :
                  Truthy(parse_assignment_filename(assignment_files[g].name))}}

RECURSIVE SumStat(_, _, _)
SumStat(stats, names, counter) ==
    IF names = {} THEN 0
    ELSE LET n == CHOOSE x \in names : TRUE
         IN stats[n][counter] + SumStat(stats, names \ {n}, counter)

\* C25: at the end of the run the statistics of every lecture table are
\* exact: columns_added is the number of columns the returned table has
\* and the input table had not, grades_updated the number of cell writes
\* on the table, and the run-wide match counters are the sums of the
\* counters of the tables
StatsAreExact ==
    pcA = "done" =>
        /\ \A l \in 1..Len(lecture_dfs) :
              lecture_dfs[l].name \in DOMAIN merge_results.stats =>
                  /\ merge_results.stats[lecture_dfs[l].name].columns_added
                         = Cardinality(ColSet(lecture_dfs[l].df) \ ColSet(lecture_files[l].df))
                  /\ merge_results.stats[lecture_dfs[l].name].grades_updated
                         = Cardinality({k \in 1..Len(assignLog) : assignLog[k].lec = l})
        /\ merge_results.match_methods.by_id
               = SumStat(merge_results.stats, DOMAIN merge_results.stats, "matched_by_id")
        /\ merge_results.match_methods.by_email
               = SumStat(merge_results.stats, DOMAIN merge_results.stats, "matched_by_email")
(***************************************************************************)
(* Properties of the aggregate mode of run_activity.                       *)
(***************************************************************************)
\* the percents of the submissions of a username in one report, and in
\* all the reports of the run
PercentsIn(df, username) ==
    {Percent(df.rows[i][hScore], df.rows[i][hMaxScore]) :
        i \in {j \in 1..Len(df.rows) :
                  extract_username_from_email(df.rows[j][hEmail]) = username}}
PercentsOf(username) ==
    UNION {PercentsIn(input_files[k].df, username) : k \in 1..Len(input_files)}
ReportsWith(username) ==
    {k \in 1..Len(input_files) : PercentsIn(input_files[k].df, username) # {}}
\* the score and count maps of combined
ScoreMapOf(comb) == [u \in DOMAIN comb |-> comb[u].max_score]
\* the written gradebook of the lecture file at position b, and the
\* username of its row i
WrittenBook(b) ==
    FileNamed(activity_out,
              ReplaceAll(lecture_files[b].name, <<".","c","s","v">>,
                         <<"_","m","e","r","g","e","d",".","c","s","v">>)).df
RowUsername(b, i) == BookUsername(lecture_files[b].df, lecture_files[b].df.rows[i])

\* C26: in every written gradebook the cell of the column is the highest
\* percent of the student over all the reports, and is empty for a student
\* of no report; every order of the reports gives the same scores
BestOfNAggregation ==
    pcV = "done" =>
        /\ \A b \in 1..Len(lecture_files) :
              \A i \in 1..Len(lecture_files[b].df.rows) :
                  IF PercentsOf(RowUsername(b, i)) = {}
                  THEN WrittenBook(b).rows[i][column_names[1]] = sEmpty
                  ELSE /\ WrittenBook(b).rows[i][column_names[1]] \in PercentsOf(RowUsername(b, i))
                       /\ \A p \in PercentsOf(RowUsername(b, i)) :
                             ~IsNa(p) => /\ ~IsNa(WrittenBook(b).rows[i][column_names[1]])
                                         /\ p.v <= WrittenBook(b).rows[i][column_names[1]].v
        /\ \A order \in Orders(input_files) :
              ScoreMapOf(AggregateAll(EmptyMap, order, 1)) = ScoreMapOf(combined)

\* C29: the cell of the count column of a student of the reports is k/N,
\* N the number of reports and k the number of reports with the student
SubmittedCountsReports ==
    pcV = "done" =>
        \A b \in 1..Len(lecture_files) :
            \A i \in 1..Len(lecture_files[b].df.rows) :
                ReportsWith(RowUsername(b, i)) # {} =>
                    /\ Cardinality(ReportsWith(RowUsername(b, i))) <= Len(input_files)
                    /\ WrittenBook(b).rows[i][CountColumn(column_names[1])]
                           = PyStr(IntToStr(Cardinality(ReportsWith(RowUsername(b, i))))
                                   \o <<"/">> \o IntToStr(Len(input_files)))
(***************************************************************************)
(* Properties of the web front end.                                        *)
(***************************************************************************)
\* C30: the merge of a request reads the files of its own form, a request
\* with both files is never answered 500, and the download of the merged
\* file that its response lists returns the merge of its own files
RequestsAreIsolated ==
    pcW # <<>> =>
        \A r \in Requests :
            /\ web_read[r] # None =>
                  /\ web_read[r].lecture = uploads[r].lecture[1].body
                  /\ web_read[r].master = uploads[r].master.body
            /\ response[r] # None => response[r].status # 500
            /\ downloaded[r] # None =>
                  /\ downloaded[r].status = 200
                  /\ downloaded[r].body = MergedBody(uploads[r].lecture[1].body,
                                                     uploads[r].master.body)
====
